---------------------------- MODULE Spec2Model ----------------------------
(***************************************************************************)
(* VERITAS claim verification and scoring pipeline.                        *)
(*                                                                         *)
(* The state is the workflow state of one audit run (agents/state.py):     *)
(* the extracted resume record, the detected claims, the verification      *)
(* results and the reports derived from them.  Each action is one          *)
(* operation of the pipeline, translated from its Python source.           *)
(*                                                                         *)
(* Conventions.  Python None is the record None for dictionaries, the      *)
(* string NoneStr for optional strings and the integer NoneYear for        *)
(* optional years.  The tri-state "exists" of a profile (True, False,      *)
(* None) is one of the strings "true", "false", "unknown".  A raised       *)
(* exception ends the run in pc = "failed" with the raising function in    *)
(* failure.                                                                *)
(***************************************************************************)
EXTENDS Integers, Sequences, FiniteSets, TLC

(***************************************************************************)
(* Bounds of the model                                                     *)
(***************************************************************************)
MaxSkills == 1
MaxProjects == 1
MaxWork == 1
MaxRemoteRepos == 1
MaxVerdicts == 2
MaxFlags == 2
MaxIntervals == 3
MaxClaimedSkills == 3

(***************************************************************************)
(* Python values                                                           *)
(***************************************************************************)
None == [none |-> TRUE]
NoneStr == "<None>"
NoneYear == 0 - 1

\* bool(x) of an optional string: None and "" are falsy
TruthyStr(s) == s # NoneStr /\ s # ""

Range(s) == {s[i] : i \in 1..Len(s)}

Min(a, b) == IF a <= b THEN a ELSE b
Max(a, b) == IF a >= b THEN a ELSE b

RECURSIVE SeqsUpTo(_, _)
\* all sequences over S of length at most n
SeqsUpTo(S, n) ==
    IF n = 0 THEN {<<>>}
    ELSE LET shorter == SeqsUpTo(S, n - 1)
         IN shorter \cup {Append(s, x) : s \in {t \in shorter : Len(t) = n - 1}, x \in S}

(***************************************************************************)
(* str methods                                                             *)
(***************************************************************************)
UpperToLower ==
    [c \in {"A","B","C","D","E","F","G","H","I","J","K","L","M",
            "N","O","P","Q","R","S","T","U","V","W","X","Y","Z"} |->
       CASE c = "A" -> "a" [] c = "B" -> "b" [] c = "C" -> "c" [] c = "D" -> "d"
         [] c = "E" -> "e" [] c = "F" -> "f" [] c = "G" -> "g" [] c = "H" -> "h"
         [] c = "I" -> "i" [] c = "J" -> "j" [] c = "K" -> "k" [] c = "L" -> "l"
         [] c = "M" -> "m" [] c = "N" -> "n" [] c = "O" -> "o" [] c = "P" -> "p"
         [] c = "Q" -> "q" [] c = "R" -> "r" [] c = "S" -> "s" [] c = "T" -> "t"
         [] c = "U" -> "u" [] c = "V" -> "v" [] c = "W" -> "w" [] c = "X" -> "x"
         [] c = "Y" -> "y" [] c = "Z" -> "z"]

CharAt(s, i) == SubSeq(s, i, i)

RECURSIVE LowerFrom(_, _)
LowerFrom(s, i) ==
    IF i > Len(s) THEN ""
    ELSE LET c == CharAt(s, i)
         IN (IF c \in DOMAIN UpperToLower THEN UpperToLower[c] ELSE c) \o LowerFrom(s, i + 1)

\* str.lower()
Lower(s) == LowerFrom(s, 1)

RECURSIVE LStrip(_)
LStrip(s) == IF Len(s) > 0 /\ CharAt(s, 1) = " " THEN LStrip(SubSeq(s, 2, Len(s))) ELSE s

RECURSIVE RStrip(_)
RStrip(s) == IF Len(s) > 0 /\ CharAt(s, Len(s)) = " " THEN RStrip(SubSeq(s, 1, Len(s) - 1)) ELSE s

\* str.strip()
Strip(s) == RStrip(LStrip(s))

\* needle in hay
Contains(needle, hay) ==
    \E i \in 1..(Len(hay) - Len(needle) + 1) : SubSeq(hay, i, i + Len(needle) - 1) = needle

RECURSIVE JoinFrom(_, _, _)
JoinFrom(sep, parts, i) ==
    IF i > Len(parts) THEN ""
    ELSE IF i = Len(parts) THEN parts[i]
    ELSE parts[i] \o sep \o JoinFrom(sep, parts, i + 1)

\* sep.join(parts)
Join(sep, parts) == JoinFrom(sep, parts, 1)

Digits == <<"0","1","2","3","4","5","6","7","8","9">>

RECURSIVE Str(_)
\* str(n) of a non-negative integer
Str(n) == IF n < 10 THEN Digits[n + 1] ELSE Str(n \div 10) \o Digits[(n % 10) + 1]

(***************************************************************************)
(* Ordered dictionaries (Python dict): a sequence of <<key, value>> pairs  *)
(* with distinct keys, in insertion order.                                 *)
(***************************************************************************)
DictKeys(d) == {d[i][1] : i \in 1..Len(d)}

DictHas(d, k) == \E i \in 1..Len(d) : d[i][1] = k

DictGet(d, k) == d[CHOOSE i \in 1..Len(d) : d[i][1] = k][2]

\* d[k] = v
DictSet(d, k, v) ==
    IF DictHas(d, k)
    THEN [i \in 1..Len(d) |-> IF d[i][1] = k THEN <<k, v>> ELSE d[i]]
    ELSE Append(d, <<k, v>>)

RECURSIVE CountKeys(_, _, _)
\* for k in ks: d[k] = d.get(k, 0) + 1     (from position i on)
CountKeys(d, ks, i) ==
    IF i > Len(ks) THEN d
    ELSE CountKeys(DictSet(d, ks[i], (IF DictHas(d, ks[i]) THEN DictGet(d, ks[i]) ELSE 0) + 1),
                   ks, i + 1)

(***************************************************************************)
(* TechConsistencyChecker                                                  *)
(***************************************************************************)
TECH_SYNONYMS ==
    << <<"js", "javascript">>, <<"ts", "typescript">>, <<"py", "python">>,
       <<"cpp", "c++">>, <<"c++", "cpp">>, <<"nodejs", "node">>,
       <<"react.js", "react">>, <<"vue.js", "vue">>, <<"django", "python">>,
       <<"flask", "python">>, <<"fastapi", "python">>, <<"express", "javascript">>,
       <<"neural networks", "deep learning">>, <<"keras", "tensorflow">>,
       <<"sklearn", "scikit-learn">>, <<"tf", "tensorflow">>, <<"pt", "pytorch">> >>

normalize_tech(tech) ==
    LET tech_lower == Lower(Strip(tech))
    IN IF DictHas(TECH_SYNONYMS, tech_lower) THEN DictGet(TECH_SYNONYMS, tech_lower)
       ELSE tech_lower

\* [normalize_tech(t) for t in techs]
NormalizeAll(techs) == [i \in 1..Len(techs) |-> normalize_tech(techs[i])]

\* NormalizeDict that leaves the keys as GitHub spells them
KeysAsSpelled(d, acc, i) == d

RECURSIVE NormalizeDict(_, _, _)
\* {normalize_tech(k): v for k, v in d.items()}: a later key overwrites an equal earlier one
NormalizeDict(d, acc, i) ==
    IF i > Len(d) THEN acc
    ELSE NormalizeDict(d, DictSet(acc, normalize_tech(d[i][1]), d[i][2]), i + 1)

RECURSIVE ClassifySkills(_, _, _, _, _, _)
\* the loop "for skill in claimed_normalized" of check_consistency
ClassifySkills(claimed, demonstrated, project, work, acc, i) ==
    IF i > Len(claimed) THEN acc
    ELSE LET skill == claimed[i]
             all_demonstrated == DictKeys(demonstrated) \cup Range(project) \cup Range(work)
             next ==
               IF skill \in all_demonstrated
               THEN IF DictHas(demonstrated, skill)
                    THEN [acc EXCEPT !.verified_skills =
                            Append(@, [skill |-> skill, found_in |-> "github_repos",
                                       repo_count |-> DictGet(demonstrated, skill)])]
                    ELSE IF skill \in Range(project)
                    THEN [acc EXCEPT !.partially_verified_skills =
                            Append(@, [skill |-> skill, found_in |-> "projects"])]
                    ELSE IF skill \in Range(work)
                    THEN [acc EXCEPT !.partially_verified_skills =
                            Append(@, [skill |-> skill, found_in |-> "work_experience"])]
                    ELSE acc
               ELSE [acc EXCEPT !.unverified_skills = Append(@, skill)]
         IN ClassifySkills(claimed, demonstrated, project, work, next, i + 1)

\* ConsistencyScore with the weights of verified and partially verified skills exchanged
ConsistencyScoreExchanged(verified, partial, total_claimed) ==
    IF total_claimed > 0
    THEN [num |-> verified * 70 + partial * 100, den |-> total_claimed * 100]
    ELSE [num |-> 0, den |-> 1]

\* (verified * 100 + partial * 70) / (total_claimed * 100), 0.0 without a claimed skill
ConsistencyScore(verified, partial, total_claimed) ==
    IF total_claimed > 0
    THEN [num |-> verified * 100 + partial * 70, den |-> total_claimed * 100]
    ELSE [num |-> 0, den |-> 1]

\* consistency_score is the exact fraction num / den (0.0 is 0 / 1);
\* undeclared_technologies is built by iterating a set, so its order is
\* not determined by the code: it is kept as a set.
check_consistency(claimed_skills, demonstrated_technologies, project_technologies, work_technologies) ==
    LET claimed_normalized == NormalizeAll(claimed_skills)
        demonstrated_normalized == NormalizeDict(demonstrated_technologies, <<>>, 1)
        project_normalized == NormalizeAll(project_technologies)
        work_normalized == NormalizeAll(work_technologies)
        all_demonstrated == DictKeys(demonstrated_normalized) \cup Range(project_normalized)
                              \cup Range(work_normalized)
        empty == [verified_skills |-> <<>>, partially_verified_skills |-> <<>>,
                  unverified_skills |-> <<>>]
        r == ClassifySkills(claimed_normalized, demonstrated_normalized,
                            project_normalized, work_normalized, empty, 1)
        total_claimed == Len(claimed_normalized)
    IN [verified_skills |-> r.verified_skills,
        partially_verified_skills |-> r.partially_verified_skills,
        unverified_skills |-> r.unverified_skills,
        undeclared_technologies |-> {t \in all_demonstrated : t \notin Range(claimed_normalized)},
        consistency_score |->
          ConsistencyScore(Len(r.verified_skills), Len(r.partially_verified_skills),
                           total_claimed)]

MaxDictValue(d) == CHOOSE m \in {d[i][2] : i \in 1..Len(d)} : \A i \in 1..Len(d) : d[i][2] <= m

\* detect_red_flags with its rules chained by elif: the first rule that applies is the only one
DetectFirstFlagOnly(claimed_skills, consistency_report, demonstrated_technologies) ==
    LET unverified_count == Len(consistency_report.unverified_skills)
    IN IF unverified_count > 0
          /\ Len(claimed_skills) > 0
          /\ unverified_count * 100 > 50 * Len(claimed_skills)
       THEN << [type |-> "high_unverified_rate", severity |-> "high",
                skills |-> consistency_report.unverified_skills] >>
       ELSE IF Cardinality(consistency_report.undeclared_technologies) > 0
       THEN << [type |-> "undeclared_technologies", severity |-> "medium",
                shown |-> Min(5, Cardinality(consistency_report.undeclared_technologies))] >>
       ELSE IF Len(demonstrated_technologies) = 1 /\ demonstrated_technologies[1][2] = 1
       THEN << [type |-> "single_repo_only", severity |-> "high"] >>
       ELSE <<>>

\* The flags carry type, severity and the supporting data; "shown" is the
\* number of undeclared technologies listed (the slice [:5] of a list in set order).
detect_red_flags(claimed_skills, consistency_report, demonstrated_technologies) ==
    LET unverified_count == Len(consistency_report.unverified_skills)
        f1 == IF unverified_count > 0
                 /\ Len(claimed_skills) > 0
                 /\ unverified_count * 100 > 50 * Len(claimed_skills)
              THEN << [type |-> "high_unverified_rate", severity |-> "high",
                       skills |-> consistency_report.unverified_skills] >>
              ELSE <<>>
        f2 == IF Cardinality(consistency_report.undeclared_technologies) > 0
              THEN << [type |-> "undeclared_technologies", severity |-> "medium",
                       shown |-> Min(5, Cardinality(consistency_report.undeclared_technologies))] >>
              ELSE <<>>
        f3 == IF Len(demonstrated_technologies) > 0
                 /\ MaxDictValue(demonstrated_technologies) = 1
                 /\ Len(demonstrated_technologies) = 1
              THEN << [type |-> "single_repo_only", severity |-> "high"] >>
              ELSE <<>>
    IN f1 \o f2 \o f3

(***************************************************************************)
(* ClaimExtractor                                                          *)
(***************************************************************************)
\* str(y) of an optional year
PyStr(y) == IF y = NoneYear THEN "None" ELSE Str(y)

MkClaim(prefix, n, text, type, value, source, severity) ==
    [id |-> prefix \o "_" \o Str(n), claim |-> text, claim_type |-> type,
     value |-> value, source |-> source, severity |-> severity]

RECURSIVE SkillClaims(_, _, _)
SkillClaims(skills, claims, i) ==
    IF i > Len(skills) THEN claims
    ELSE SkillClaims(skills,
           Append(claims, MkClaim("skill", Len(claims), "Proficient in " \o skills[i],
                                  "skill_match", skills[i], "resume_skills", "high")),
           i + 1)

ProjectClaims1(project, claims) ==
    LET c1 == IF Len(project.technologies) > 0
              THEN Append(claims,
                     MkClaim("tech", Len(claims),
                             "Used " \o Join(", ", project.technologies) \o " in " \o project.name,
                             "skill_match", Join(", ", project.technologies),
                             "project_" \o project.name, "high"))
              ELSE claims
        c2 == IF TruthyStr(project.timeline)
              THEN Append(c1,
                     MkClaim("timeline", Len(c1),
                             "Completed " \o project.name \o " during " \o project.timeline,
                             "timeline", project.timeline, "project_" \o project.name, "medium"))
              ELSE c1
        c3 == IF TruthyStr(project.description)
              THEN Append(c2,
                     MkClaim("depth", Len(c2),
                             "Built " \o project.name \o " with deep understanding",
                             "depth", project.description, "project_" \o project.name, "medium"))
              ELSE c2
    IN c3

RECURSIVE ProjectClaims(_, _, _)
ProjectClaims(projects, claims, i) ==
    IF i > Len(projects) THEN claims
    ELSE ProjectClaims(projects, ProjectClaims1(projects[i], claims), i + 1)

WorkClaims1(exp, claims) ==
    LET timeline == PyStr(exp.start_year) \o "-" \o PyStr(exp.end_year)
        c1 == Append(claims,
                MkClaim("work_timeline", Len(claims),
                        "Worked at " \o exp.company \o " from " \o timeline,
                        "timeline", timeline, "work_experience", "high"))
        c2 == IF Len(exp.technologies) > 0
              THEN Append(c1,
                     MkClaim("work_tech", Len(c1),
                             "Used " \o Join(", ", exp.technologies) \o " at " \o exp.company,
                             "skill_match", Join(", ", exp.technologies),
                             "work_" \o exp.company, "high"))
              ELSE c1
    IN c2

RECURSIVE WorkClaims(_, _, _)
WorkClaims(work, claims, i) ==
    IF i > Len(work) THEN claims
    ELSE WorkClaims(work, WorkClaims1(work[i], claims), i + 1)

RECURSIVE NumericClaims(_, _, _)
NumericClaims(given, claims, i) ==
    IF i > Len(given) THEN claims
    ELSE NumericClaims(given,
           IF given[i].type = "numeric"
           THEN Append(claims, MkClaim("numeric", Len(claims), given[i].claim, "numeric",
                                       given[i].value, "resume_text", "medium"))
           ELSE claims,
           i + 1)

LinkTypes == << <<"github_username", "github username">>,
                <<"kaggle_username", "kaggle username">>,
                <<"linkedin_url", "linkedin url">> >>

RECURSIVE LinkClaims(_, _, _)
LinkClaims(data, claims, i) ==
    IF i > Len(LinkTypes) THEN claims
    ELSE LET link_value == data[LinkTypes[i][1]]
         IN LinkClaims(data,
              IF TruthyStr(link_value)
              THEN Append(claims,
                     MkClaim("link", Len(claims),
                             "Has active " \o LinkTypes[i][2] \o ": " \o link_value,
                             "link_verification", link_value, "resume_links", "high"))
              ELSE claims,
              i + 1)

CgpaClaims(data, claims) ==
    IF TruthyStr(data.cgpa)
    THEN Append(claims, MkClaim("cgpa", Len(claims), "CGPA: " \o data.cgpa \o "/10",
                                "numeric", data.cgpa, "education", "low"))
    ELSE claims

extract_claims(extracted_data) ==
    LET c1 == SkillClaims(extracted_data.skills, <<>>, 1)
        c2 == ProjectClaims(extracted_data.projects, c1, 1)
        c3 == WorkClaims(extracted_data.work_experience, c2, 1)
        c4 == NumericClaims(extracted_data.claims, c3, 1)
        c5 == LinkClaims(extracted_data, c4, 1)
    IN CgpaClaims(extracted_data, c5)

\* severity_order.get(x.get("severity", "low"), 3)
SeverityKey(claim) ==
    CASE claim.severity = "high" -> 0
      [] claim.severity = "medium" -> 1
      [] claim.severity = "low" -> 2
      [] OTHER -> 3

\* InsertByKey that puts x before the elements of equal key
InsertBeforeEqualKey(sorted, x) ==
    LET k == Cardinality({i \in 1..Len(sorted) : SeverityKey(sorted[i]) < SeverityKey(x)})
    IN SubSeq(sorted, 1, k) \o <<x>> \o SubSeq(sorted, k + 1, Len(sorted))

\* one step of a stable insertion sort: x goes after every element whose key is <= its key
InsertByKey(sorted, x) ==
    LET k == Cardinality({i \in 1..Len(sorted) : SeverityKey(sorted[i]) <= SeverityKey(x)})
    IN SubSeq(sorted, 1, k) \o <<x>> \o SubSeq(sorted, k + 1, Len(sorted))

RECURSIVE SortedBySeverity(_, _, _)
SortedBySeverity(claims, acc, i) ==
    IF i > Len(claims) THEN acc
    ELSE SortedBySeverity(claims, InsertByKey(acc, claims[i]), i + 1)

\* sorted(claims, key=severity): Python's sort is stable
prioritize_claims(claims) == SortedBySeverity(claims, <<>>, 1)

(***************************************************************************)
(* TimelineValidator                                                       *)
(***************************************************************************)
CURRENT_YEAR == 2026

\* The en dash and the em dash, written with one ASCII character each.
EnDash == "~"
EmDash == "^"

DigitValue(c) == CHOOSE d \in 0..9 : Digits[d + 1] = c

IsDigit(c) == \E d \in 0..9 : Digits[d + 1] = c

RECURSIVE DigitsValue(_, _, _)
DigitsValue(s, i, acc) ==
    IF i > Len(s) THEN acc ELSE DigitsValue(s, i + 1, acc * 10 + DigitValue(CharAt(s, i)))

AllDigits(s) == Len(s) > 0 /\ \A i \in 1..Len(s) : IsDigit(CharAt(s, i))

\* int(s): ok is FALSE where Python raises ValueError
IntParse(s) ==
    LET parse(t) ==
          LET value(signed, digits) ==
                IF AllDigits(digits)
                THEN [ok |-> TRUE,
                      val |-> IF signed /\ CharAt(t, 1) = "-" THEN 0 - DigitsValue(digits, 1, 0)
                              ELSE DigitsValue(digits, 1, 0)]
                ELSE [ok |-> FALSE, val |-> 0]
          IN IF Len(t) > 0 /\ CharAt(t, 1) \in {"+", "-"}
             THEN value(TRUE, SubSeq(t, 2, Len(t)))
             ELSE value(FALSE, t)
    IN parse(Strip(s))

\* position of the first occurrence of the one-character sep in s from position i on, 0 if none
FirstSep(s, sep, i) ==
    IF \E j \in i..Len(s) : CharAt(s, j) = sep
    THEN CHOOSE j \in i..Len(s) : CharAt(s, j) = sep /\ \A k \in i..(j - 1) : CharAt(s, k) # sep
    ELSE 0

\* s.split(sep)[0] and s.split(sep)[1] for a sep that occurs in s
SplitFirstTwo(s, sep) ==
    LET parts(a, b) == << SubSeq(s, 1, a - 1), SubSeq(s, a + 1, IF b = 0 THEN Len(s) ELSE b - 1) >>
        second(a) == parts(a, FirstSep(s, sep, a + 1))
    IN second(FirstSep(s, sep, 1))

\* x[:3], one character short of a year
First3(x) == SubSeq(x, 1, Min(3, Len(x)))

\* x[-4:] and x[:4]
Last4(x) == SubSeq(x, Max(1, Len(x) - 3), Len(x))
First4(x) == SubSeq(x, 1, Min(4, Len(x)))

RECURSIVE FindYears(_, _)
\* re.findall(r"20\d{2}", s) from position i on: non-overlapping matches, left to right
FindYears(s, i) ==
    IF i + 3 > Len(s) THEN <<>>
    ELSE IF SubSeq(s, i, i + 1) = "20" /\ IsDigit(CharAt(s, i + 2)) /\ IsDigit(CharAt(s, i + 3))
    THEN <<DigitsValue(SubSeq(s, i, i + 3), 1, 0)>> \o FindYears(s, i + 4)
    ELSE FindYears(s, i + 1)

RECURSIVE TrySeparators(_, _, _)
\* the loop over the separators: the first one for which both years parse decides
TrySeparators(s, seps, i) ==
    LET decide(start, end) ==
          IF start.ok /\ end.ok THEN <<start.val, end.val, TRUE>>
          ELSE TrySeparators(s, seps, i + 1)
        years(parts) == decide(IntParse(Last4(Strip(parts[1]))), IntParse(First4(Strip(parts[2]))))
    IN IF i > Len(seps) THEN <<NoneYear, NoneYear, FALSE>>
       ELSE IF Contains(seps[i], s) THEN years(SplitFirstTwo(s, seps[i]))
       ELSE TrySeparators(s, seps, i + 1)

\* (start_year, end_year), or (None, None)
parse_timeline(timeline_str) ==
    LET fallback(years) ==
          IF Len(years) >= 2 THEN <<years[1], years[2]>>
          ELSE IF Len(years) = 1 THEN <<years[1], CURRENT_YEAR>>
          ELSE <<NoneYear, NoneYear>>
        result(s, bySep) ==
          IF bySep[3] THEN <<bySep[1], bySep[2]>> ELSE fallback(FindYears(s, 1))
        parse(s) == result(s, TrySeparators(s, <<"-", EnDash, EmDash>>, 1))
    IN IF ~TruthyStr(timeline_str) THEN <<NoneYear, NoneYear>>
       ELSE parse(Strip(timeline_str))

\* "not y" of an optional year: None and 0 are falsy
FalsyYear(y) == y = NoneYear \/ y = 0

\* the first repository whose name matches the project name, 0 if none
MatchingRepo(project_name, github_repos) ==
    LET matches(i) == LET repo_name == Lower(github_repos[i].name)
                          project_lower == Lower(project_name)
                      IN Contains(project_lower, repo_name) \/ Contains(repo_name, project_lower)
    IN IF \E i \in 1..Len(github_repos) : matches(i)
       THEN CHOOSE i \in 1..Len(github_repos) : matches(i) /\ \A j \in 1..(i - 1) : ~matches(j)
       ELSE 0

validate_project_timeline(project_name, claimed_timeline, github_repos) ==
    LET compare(start, end, created) ==
          LET timeline_match == start - 1 <= created.val /\ created.val <= start + 1
          IN IF ~created.ok
             THEN [project |-> project_name, claimed_timeline |-> claimed_timeline,
                   status |-> "error", verified |-> FALSE]
             ELSE [project |-> project_name,
                   claimed_timeline |-> Str(start) \o "-" \o Str(end),
                   status |-> IF timeline_match THEN "verified" ELSE "mismatch",
                   verified |-> timeline_match]
        lookup(start, end, m) ==
          IF m = 0
          THEN [project |-> project_name, claimed_timeline |-> claimed_timeline,
                status |-> "no_matching_repo", verified |-> FALSE]
          ELSE IF github_repos[m].created_at = NoneStr
          THEN [project |-> project_name, claimed_timeline |-> claimed_timeline,
                status |-> "error", verified |-> FALSE]
          ELSE compare(start, end,
                       IntParse(SplitFirstTwo(github_repos[m].created_at \o "-", "-")[1]))
        validate(years) ==
          IF FalsyYear(years[1]) \/ FalsyYear(years[2])
          THEN [project |-> project_name, claimed_timeline |-> claimed_timeline,
                status |-> "unparseable", verified |-> FALSE]
          ELSE lookup(years[1], years[2], MatchingRepo(project_name, github_repos))
    IN validate(parse_timeline(claimed_timeline))

RECURSIVE RelevantActivity(_, _, _, _)
\* the sum of the counts of github_activity whose year lies in [start_year, end_year]
RelevantActivity(github_activity, start_year, end_year, i) ==
    IF i > Len(github_activity) THEN 0
    ELSE LET year == IntParse(github_activity[i][1])
         IN (IF year.ok /\ start_year <= year.val /\ year.val <= end_year
             THEN github_activity[i][2] ELSE 0)
            + RelevantActivity(github_activity, start_year, end_year, i + 1)

validate_work_experience_timeline(position, company, start_year, end_year, github_activity) ==
    IF FalsyYear(start_year) \/ FalsyYear(end_year)
    THEN [company |-> company, position |-> position,
          claimed_timeline |-> PyStr(start_year) \o "-" \o PyStr(end_year),
          status |-> "invalid_timeline", verified |-> FALSE]
    ELSE LET relevant_activity == RelevantActivity(github_activity, start_year, end_year, 1)
             has_activity == relevant_activity > 0
         IN [company |-> company, position |-> position,
             claimed_timeline |-> Str(start_year) \o "-" \o Str(end_year),
             status |-> IF has_activity THEN "verified" ELSE "no_evidence",
             verified |-> has_activity]

\* A raised exception, as the value of the call that raised it
Raise(what) == [raised |-> what]
Raised(r) == "raised" \in DOMAIN r
\* a returned list, told apart from a raised exception
Return(v) == [returned |-> v]

RECURSIVE ProjectIntervals(_, _)
ProjectIntervals(projects, i) ==
    LET entry(years) ==
          IF TruthyStr(projects[i].timeline) /\ ~FalsyYear(years[1]) /\ ~FalsyYear(years[2])
          THEN << [type |-> "project", name |-> projects[i].name,
                   start |-> years[1], end |-> years[2]] >>
          ELSE <<>>
    IN IF i > Len(projects) THEN <<>>
       ELSE entry(parse_timeline(projects[i].timeline)) \o ProjectIntervals(projects, i + 1)

RECURSIVE WorkIntervals(_, _)
\* work.get("end_year", CURRENT_YEAR) is None for a record whose end_year is null
WorkIntervals(work_experiences, i) ==
    IF i > Len(work_experiences) THEN <<>>
    ELSE (IF ~FalsyYear(work_experiences[i].start_year)
          THEN << [type |-> "work", name |-> work_experiences[i].company,
                   start |-> work_experiences[i].start_year,
                   end |-> work_experiences[i].end_year] >>
          ELSE <<>>)
         \o WorkIntervals(work_experiences, i + 1)

\* t1["start"] <= t2["end"] and t2["start"] <= t1["end"] compares an int with None
OverlapTestRaises(t1, t2) ==
    t2.end = NoneYear \/ (t1.start <= t2.end /\ t1.end = NoneYear)

\* OverlapTest with strict comparisons: a shared boundary year is no overlap
OverlapTestStrict(t1, t2) == t1.start < t2.end /\ t2.start < t1.end

OverlapTest(t1, t2) == t1.start <= t2.end /\ t2.start <= t1.end

RECURSIVE OverlapsFrom(_, _, _)
\* the nested loop over i < j, in the order the code appends
OverlapsFrom(all_timelines, i, j) ==
    IF i > Len(all_timelines) THEN <<>>
    ELSE IF j > Len(all_timelines) THEN OverlapsFrom(all_timelines, i + 1, i + 2)
    ELSE (IF OverlapTest(all_timelines[i], all_timelines[j])
          THEN << [type1 |-> all_timelines[i].type \o ": " \o all_timelines[i].name,
                   type2 |-> all_timelines[j].type \o ": " \o all_timelines[j].name,
                   period |-> Str(Max(all_timelines[i].start, all_timelines[j].start)) \o "-"
                              \o Str(Min(all_timelines[i].end, all_timelines[j].end))] >>
          ELSE <<>>)
         \o OverlapsFrom(all_timelines, i, j + 1)

validate_overall_consistency(projects, work_experiences) ==
    LET report(all_timelines, n, overlaps) ==
          [total_timeline_entries |-> n,
           overlapping_periods |-> overlaps,
           is_chronological |->
              \A i \in 1..(n - 1) : all_timelines[i].start <= all_timelines[i + 1].start,
           consistency_score |-> Max(0, 100 - Len(overlaps) * 10)]
        check(all_timelines, n) ==
          IF \E i \in 1..n : \E j \in (i + 1)..n :
                OverlapTestRaises(all_timelines[i], all_timelines[j])
          THEN Raise("TypeError")
          ELSE report(all_timelines, n, OverlapsFrom(all_timelines, 1, 2))
        collect(all_timelines) == check(all_timelines, Len(all_timelines))
    IN collect(ProjectIntervals(projects, 1) \o WorkIntervals(work_experiences, 1))

(***************************************************************************)
(* Evidence source clients.  resp is the outcome of the HTTP request:      *)
(* "200", "404", "500" (any other status) or "exception" (timeout,         *)
(* connection error).                                                      *)
(***************************************************************************)
Responses == {"200", "404", "500", "exception"}

MAX_REPOS == 10

github_verify_user_exists(username, resp) ==
    CASE resp = "200" -> [exists |-> "true", username |-> username]
      [] resp = "404" -> [exists |-> "false", username |-> username]
      [] resp = "exception" -> [exists |-> "unknown", username |-> username, error |-> "exception"]
      [] OTHER -> [exists |-> "unknown", username |-> username, error |-> resp]

\* the repositories the API lists (per_page = MAX_REPOS), or [] on any failure
get_repositories(username, resp, remote_repos) ==
    IF resp = "200"
    THEN [i \in 1..Min(MAX_REPOS, Len(remote_repos)) |->
            [name |-> remote_repos[i].name, created_at |-> remote_repos[i].created_at]]
    ELSE <<>>

\* the language -> bytes dictionary of one repository, or {} on any failure
get_repo_languages(username, repo_name, resp, remote_repos) ==
    IF resp = "200" /\ \E i \in 1..Len(remote_repos) : remote_repos[i].name = repo_name
    THEN remote_repos[CHOOSE i \in 1..Len(remote_repos) : remote_repos[i].name = repo_name].languages
    ELSE <<>>

RECURSIVE CountLanguages(_, _, _, _, _, _)
\* for repo in repos: for lang in get_repo_languages(repo): all_languages[lang] += 1
CountLanguages(username, repos, resp, remote_repos, all_languages, i) ==
    IF i > Len(repos) THEN all_languages
    ELSE LET langs == get_repo_languages(username, repos[i].name, resp, remote_repos)
         IN CountLanguages(username, repos, resp, remote_repos,
                           CountKeys(all_languages, [k \in 1..Len(langs) |-> langs[k][1]], 1),
                           i + 1)

\* the first technology of found_techs that contains the skill or is contained in it, 0 if none
FoundTech(skill, found_techs) ==
    LET hit(i) == Contains(Lower(skill), Lower(found_techs[i][1]))
                    \/ Contains(Lower(found_techs[i][1]), Lower(skill))
    IN IF \E i \in 1..Len(found_techs) : hit(i)
       THEN CHOOSE i \in 1..Len(found_techs) : hit(i) /\ \A j \in 1..(i - 1) : ~hit(j)
       ELSE 0

\* net.repos and net.langs are the outcomes of the listing and language requests
verify_tech_stack(username, claimed_skills, net, remote_repos) ==
    LET repos == get_repositories(username, net.repos, remote_repos)
        found_techs == CountLanguages(username, SubSeq(repos, 1, Min(MAX_REPOS, Len(repos))),
                                      net.langs, remote_repos, <<>>, 1)
        verified(i) == FoundTech(claimed_skills[i], found_techs) # 0
    IN [username |-> username,
        verified_skills |->
          [k \in 1..Len(SelectSeq([i \in 1..Len(claimed_skills) |-> i], verified)) |->
             LET i == SelectSeq([j \in 1..Len(claimed_skills) |-> j], verified)[k]
                 t == FoundTech(claimed_skills[i], found_techs)
             IN [claimed |-> claimed_skills[i], found |-> found_techs[t][1],
                 count |-> found_techs[t][2]]],
        unverified_skills |->
          LET idx == SelectSeq([j \in 1..Len(claimed_skills) |-> j], LAMBDA i : ~verified(i))
          IN [k \in 1..Len(idx) |-> claimed_skills[idx[k]]],
        all_found_technologies |-> found_techs]

verify_project_claims(username, claimed_projects, net, remote_repos) ==
    LET repos == get_repositories(username, net.repos, remote_repos)
        m(i) == MatchingRepo(claimed_projects[i].name, repos)
        all == [j \in 1..Len(claimed_projects) |-> j]
        matched == SelectSeq(all, LAMBDA i : m(i) # 0)
        unmatched == SelectSeq(all, LAMBDA i : m(i) = 0)
    IN [username |-> username,
        total_claimed |-> Len(claimed_projects),
        total_repos |-> Len(repos),
        matched_projects |->
          [k \in 1..Len(matched) |->
             [claimed_name |-> claimed_projects[matched[k]].name,
              repo_name |-> repos[m(matched[k])].name,
              languages |-> get_repo_languages(username, repos[m(matched[k])].name,
                                               net.langs, remote_repos)]],
        unmatched_projects |->
          [k \in 1..Len(unmatched) |->
             [claimed_name |-> claimed_projects[unmatched[k]].name,
              claimed_technologies |-> claimed_projects[unmatched[k]].technologies]]]

kaggle_verify_via_html_parsing(username, resp2) ==
    CASE resp2 = "200" -> [exists |-> "true", username |-> username,
                           verified_by |-> "profile_page_access"]
      [] resp2 = "exception" -> [exists |-> "unknown", username |-> username,
                                 error |-> "exception"]
      [] OTHER -> [exists |-> "false", username |-> username]

\* resp2 is the outcome of the fallback HEAD request, made only after an unexpected status
kaggle_verify_user_exists(username, resp, resp2) ==
    CASE resp = "200" -> [exists |-> "true", username |-> username]
      [] resp = "404" -> [exists |-> "false", username |-> username]
      [] resp = "exception" -> [exists |-> "unknown", username |-> username,
                                error |-> "exception"]
      [] OTHER -> kaggle_verify_via_html_parsing(username, resp2)

\* get_competitions_participated and get_datasets_contributed
kaggle_get_list(username, resp, remote_list) ==
    CASE resp = "200" -> [username |-> username, items |-> remote_list,
                          total_count |-> Len(remote_list)]
      [] OTHER -> [username |-> username, items |-> <<>>, total_count |-> 0, error |-> resp]

(***************************************************************************)
(* VerificationEngine.  net gives the outcome of the requests an operation *)
(* makes: net.user (profile), net.repos (repository listing), net.langs    *)
(* (language listing), net.fallback (Kaggle profile page), net.lists       *)
(* (Kaggle competitions and datasets); each is one of Responses.           *)
(***************************************************************************)
\* what Kaggle lists for a user that exists
KaggleCompetitions == <<"titanic">>
KaggleDatasets == <<>>

\* A request to the GitHub API is named by its path: "user" (/users/<name>),
\* "repos" (/users/<name>/repos) and "languages/<repo>" (/repos/<name>/<repo>/languages).
LanguageRequests(repos) == [i \in 1..Len(repos) |-> "languages/" \o repos[i].name]

\* the requests of GitHubAgent.verify_project_claims
verify_project_claims_requests(username, claimed_projects, net, remote_repos) ==
    LET repos == get_repositories(username, net.repos, remote_repos)
        matched == SelectSeq([j \in 1..Len(claimed_projects) |-> j],
                             LAMBDA i : MatchingRepo(claimed_projects[i].name, repos) # 0)
    IN <<"repos">>
         \o [k \in 1..Len(matched) |->
               "languages/" \o repos[MatchingRepo(claimed_projects[matched[k]].name, repos)].name]

\* the requests of GitHubAgent.verify_tech_stack
verify_tech_stack_requests(username, net, remote_repos) ==
    LET repos == get_repositories(username, net.repos, remote_repos)
    IN <<"repos">> \o LanguageRequests(SubSeq(repos, 1, Min(MAX_REPOS, Len(repos))))

\* the requests of VerificationEngine._verify_github
verify_github_requests(extracted_data, net, remote_repos) ==
    LET username == extracted_data.github_username
        exists == github_verify_user_exists(username, net.user).exists = "true"
        repos == get_repositories(username, net.repos, remote_repos)
    IN <<"user">>
         \o (IF exists /\ Len(extracted_data.projects) > 0
             THEN verify_project_claims_requests(username, extracted_data.projects, net,
                                                 remote_repos)
             ELSE <<>>)
         \o (IF exists /\ Len(extracted_data.skills) > 0
             THEN <<"repos">> \o LanguageRequests(repos)
                    \o verify_tech_stack_requests(username, net, remote_repos)
             ELSE <<>>)

\* the requests of VerificationEngine._check_tech_consistency
check_tech_consistency_requests(extracted_data, net, remote_repos) ==
    IF TruthyStr(extracted_data.github_username)
    THEN <<"repos">>
           \o LanguageRequests(get_repositories(extracted_data.github_username, net.repos,
                                                remote_repos))
    ELSE <<>>

\* the requests of VerificationEngine._validate_timelines
validate_timelines_requests(extracted_data) ==
    IF TruthyStr(extracted_data.github_username) THEN <<"repos">> ELSE <<>>

verify_github(extracted_data, net, remote_repos) ==
    LET username == extracted_data.github_username
        user_profile == github_verify_user_exists(username, net.user)
        exists == user_profile.exists = "true"
    IN [username |-> username,
        stage |-> "github_verification",
        user_profile |-> user_profile,
        projects_verified |->
          IF exists /\ Len(extracted_data.projects) > 0
          THEN verify_project_claims(username, extracted_data.projects, net, remote_repos)
          ELSE <<>>,
        tech_verification |->
          IF exists /\ Len(extracted_data.skills) > 0
          THEN verify_tech_stack(username, extracted_data.skills, net, remote_repos)
          ELSE <<>>]

verify_kaggle(extracted_data, net) ==
    LET username == extracted_data.kaggle_username
        user_profile == kaggle_verify_user_exists(username, net.user, net.fallback)
        base == [username |-> username, stage |-> "kaggle_verification",
                 user_profile |-> user_profile]
    IN IF user_profile.exists = "true"
       THEN [username |-> username, stage |-> "kaggle_verification",
             user_profile |-> user_profile,
             competitions |-> kaggle_get_list(username, net.lists, KaggleCompetitions),
             datasets |-> kaggle_get_list(username, net.lists, KaggleDatasets)]
       ELSE base

RECURSIVE ExtractTechs(_, _)
\* _extract_project_techs and _extract_work_techs
ExtractTechs(items, i) ==
    IF i > Len(items) THEN <<>> ELSE items[i].technologies \o ExtractTechs(items, i + 1)

check_tech_consistency(extracted_data, net, remote_repos) ==
    LET username == extracted_data.github_username
        all_languages ==
          IF TruthyStr(username)
          THEN CountLanguages(username, get_repositories(username, net.repos, remote_repos),
                              net.langs, remote_repos, <<>>, 1)
          ELSE <<>>
        consistency == check_consistency(extracted_data.skills, all_languages,
                                         ExtractTechs(extracted_data.projects, 1),
                                         ExtractTechs(extracted_data.work_experience, 1))
    IN [stage |-> "tech_consistency",
        consistency_report |-> consistency,
        red_flags |-> detect_red_flags(extracted_data.skills, consistency, all_languages)]

validate_timelines(extracted_data, net, remote_repos) ==
    LET projects == extracted_data.projects
        work == extracted_data.work_experience
        report(github_repos, overall) ==
          IF Raised(overall) THEN overall
          ELSE [stage |-> "timeline_validation",
                project_timelines |->
                  [i \in 1..Len(projects) |->
                     validate_project_timeline(projects[i].name, projects[i].timeline,
                                               github_repos)],
                work_timelines |->
                  [i \in 1..Len(work) |->
                     validate_work_experience_timeline(work[i].position, work[i].company,
                                                       work[i].start_year, work[i].end_year,
                                                       <<>>)],
                overall_consistency |-> overall]
    IN report(IF TruthyStr(extracted_data.github_username)
              THEN get_repositories(extracted_data.github_username, net.repos, remote_repos)
              ELSE <<>>,
              validate_overall_consistency(projects, work))

_generate_reasoning(status, score, evidence) ==
    IF status = "verified"
    THEN "Claim verified with " \o Str(score) \o "% confidence. " \o Join(" ", evidence)
    ELSE IF status = "partially_verified"
    THEN "Claim partially verified (" \o Str(score) \o "% confidence). " \o Join(" ", evidence)
    ELSE "Insufficient evidence to verify claim (" \o Str(score) \o "% confidence). "
           \o (IF Len(evidence) > 0 THEN Join(" ", evidence)
               ELSE "No supporting evidence found.")

\* the first entry of a verified / partial list whose skill equals v, 0 if none
FirstSkill(entries, v) ==
    IF \E i \in 1..Len(entries) : entries[i].skill = v
    THEN CHOOSE i \in 1..Len(entries) :
           entries[i].skill = v /\ \A j \in 1..(i - 1) : entries[j].skill # v
    ELSE 0

\* the claim's value as the skill_match branch looks it up
SkillLookupKey(value) == Lower(value)

\* the test that sends a link_verification claim to the GitHub / Kaggle branch
LinkMentions(word, value) == Contains(word, Lower(value))

\* <<status, trust_score, evidence>> of a skill_match claim
EvaluateSkillMatch(value, consistency_report) ==
    LET verified == consistency_report.verified_skills
        partial == consistency_report.partially_verified_skills
        v == FirstSkill(verified, SkillLookupKey(value))
        p == FirstSkill(partial, SkillLookupKey(value))
        ev1 == IF v # 0 THEN << "Found in " \o verified[v].found_in >> ELSE <<>>
        ev2 == IF p # 0 THEN << "Found in " \o partial[p].found_in >> ELSE <<>>
    IN IF p # 0 THEN <<"partially_verified", 70, ev1 \o ev2>>
       ELSE IF v # 0 THEN <<"verified", 95, ev1>>
       ELSE <<"unverified", 30, <<"Not found in GitHub, projects, or work experience">> >>

\* <<status, trust_score, evidence>> of a link_verification claim
EvaluateLink(value, extracted_data, verification_results) ==
    IF TruthyStr(extracted_data.github_username) /\ LinkMentions("github", value)
    THEN IF verification_results.github_verification.user_profile.exists = "true"
         THEN <<"verified", 100, <<"GitHub profile verified">> >>
         ELSE <<"unverified", 0, <<>> >>
    ELSE IF TruthyStr(extracted_data.kaggle_username) /\ LinkMentions("kaggle", value)
    THEN IF verification_results.kaggle_verification.user_profile.exists = "true"
         THEN <<"verified", 100, <<"Kaggle profile verified">> >>
         ELSE <<"unverified", 0, <<>> >>
    ELSE <<"unverified", 0, <<>> >>

\* <<status, trust_score, evidence>> of a timeline claim
EvaluateTimeline(timeline_info) ==
    IF \E i \in 1..Len(timeline_info.project_timelines) : timeline_info.project_timelines[i].verified
    THEN <<"verified", 90, <<>> >>
    ELSE <<"unverified", 0, <<>> >>

\* dict.get(key, {}) returns None for a key that is present with the value None,
\* and None has no attribute "get"
_evaluate_single_claim(claim, extracted_data, verification_results) ==
    LET claim_type == claim.claim_type
        value == claim.value
        raises ==
          \/ claim_type = "skill_match" /\ verification_results.tech_consistency = None
          \/ /\ claim_type = "link_verification"
             /\ \/ /\ TruthyStr(extracted_data.github_username) /\ LinkMentions("github", value)
                   /\ verification_results.github_verification = None
                \/ /\ ~(TruthyStr(extracted_data.github_username) /\ LinkMentions("github", value))
                   /\ TruthyStr(extracted_data.kaggle_username) /\ LinkMentions("kaggle", value)
                   /\ verification_results.kaggle_verification = None
          \/ claim_type = "timeline" /\ verification_results.timeline_validity = None
        r == CASE claim_type = "skill_match" ->
                    EvaluateSkillMatch(value, verification_results.tech_consistency.consistency_report)
               [] claim_type = "link_verification" ->
                    EvaluateLink(value, extracted_data, verification_results)
               [] claim_type = "numeric" ->
                    <<"unverified", 50, <<"Numeric claim extracted from resume">> >>
               [] claim_type = "timeline" ->
                    EvaluateTimeline(verification_results.timeline_validity)
               [] OTHER -> <<"unverified", 0, <<>> >>
    IN IF raises THEN Raise("AttributeError")
       ELSE [claim |-> claim.claim, claim_id |-> claim.id, claim_type |-> claim_type,
             value |-> value, status |-> r[1], trust_score |-> r[2], evidence |-> r[3],
             reasoning |-> _generate_reasoning(r[1], r[2], r[3])]

\* _evaluate_all_claims that walks the claims from the last to the first
EvaluateClaimsBackwards(extracted_data, claims, verification_results) ==
    LET results == [i \in 1..Len(claims) |->
                      _evaluate_single_claim(claims[Len(claims) + 1 - i], extracted_data,
                                             verification_results)]
    IN IF \E i \in 1..Len(claims) : Raised(results[i])
       THEN Raise("AttributeError")
       ELSE Return(results)

\* the list of verdicts, or the exception of the first claim whose evaluation raises
_evaluate_all_claims(extracted_data, claims, verification_results) ==
    LET results == [i \in 1..Len(claims) |->
                      _evaluate_single_claim(claims[i], extracted_data, verification_results)]
    IN IF \E i \in 1..Len(claims) : Raised(results[i])
       THEN Raise("AttributeError")
       ELSE Return(results)

(***************************************************************************)
(* Numbers.  A Python float that is a quotient of integers is kept as the  *)
(* exact fraction [num, den] with den > 0.                                 *)
(***************************************************************************)
Frac(n, d) == [num |-> n, den |-> d]

FracAdd(a, b) == Frac(a.num * b.den + b.num * a.den, a.den * b.den)

FracMul(a, b) == Frac(a.num * b.num, a.den * b.den)

\* a >= n for an integer n
FracGe(a, n) == a.num >= n * a.den

FracLe(a, n) == a.num <= n * a.den

\* min(100, max(0, a))
FracClamp(a) == IF ~FracGe(a, 0) THEN Frac(0, 1) ELSE IF FracGe(a, 100) THEN Frac(100, 1) ELSE a

\* round(a) for a >= 0: to the nearest integer, a tie to the even one
Round(a) ==
    LET q == a.num \div a.den
        r == a.num % a.den
    IN IF 2 * r > a.den THEN q + 1
       ELSE IF 2 * r < a.den THEN q
       ELSE IF q % 2 = 0 THEN q ELSE q + 1

(***************************************************************************)
(* TrustScorer                                                             *)
(***************************************************************************)
PARTIAL_MATCH_THRESHOLD == 70
VERIFIED_THRESHOLD == 85

score_claim(claim_result) ==
    LET trust_score == claim_result.trust_score
        level == IF trust_score >= VERIFIED_THRESHOLD THEN <<"High", "Verified">>
                 ELSE IF trust_score >= PARTIAL_MATCH_THRESHOLD
                 THEN <<"Medium", "Partially Verified">>
                 ELSE IF trust_score >= 40 THEN <<"Low", "Unverified">>
                 ELSE <<"Very Low", "Flagged">>
    IN [claim |-> claim_result.claim, claim_id |-> claim_result.claim_id,
        claim_type |-> claim_result.claim_type, status |-> claim_result.status,
        trust_score |-> trust_score, confidence |-> level[1], label |-> level[2],
        evidence |-> claim_result.evidence, reasoning |-> claim_result.reasoning]

RECURSIVE SumScores(_, _)
SumScores(scored, i) == IF i > Len(scored) THEN 0 ELSE scored[i].trust_score + SumScores(scored, i + 1)

CountWhere(s, P(_)) == Cardinality({i \in 1..Len(s) : P(s[i])})

\* OverallScore without the division by the number of claims
OverallScoreUndivided(scored_claims) == Frac(SumScores(scored_claims, 1), 1)

\* sum(trust_score) / total, or 0 for no claims
OverallScore(scored_claims) ==
    IF Len(scored_claims) > 0 THEN Frac(SumScores(scored_claims, 1), Len(scored_claims))
    ELSE Frac(0, 1)

\* the label is chosen from the unrounded average
OverallLabel(overall_score) ==
    IF FracGe(overall_score, VERIFIED_THRESHOLD) THEN "Highly Trustworthy"
    ELSE IF FracGe(overall_score, PARTIAL_MATCH_THRESHOLD) THEN "Partially Trustworthy"
    ELSE IF FracGe(overall_score, 50) THEN "Moderately Trustworthy"
    ELSE "Low Trustworthiness"

_generate_overall_reasoning(score, scored_claims) ==
    LET flagged == CountWhere(scored_claims, LAMBDA c : c.status \in {"unverified", "flagged"})
    IN IF FracGe(score, VERIFIED_THRESHOLD) THEN "well-supported"
       ELSE IF FracGe(score, PARTIAL_MATCH_THRESHOLD)
       THEN IF flagged > 0 THEN "mostly verified, " \o Str(flagged) \o " lack evidence"
            ELSE "generally trustworthy"
       ELSE IF FracGe(score, 50) THEN "multiple claims (" \o Str(flagged) \o ") lack verification"
       ELSE "low overall trustworthiness"

Percent(count, total) == IF total > 0 THEN Round(Frac(count * 100, total)) ELSE 0

score_all_claims(claim_results) ==
    LET scored_claims == [i \in 1..Len(claim_results) |-> score_claim(claim_results[i])]
        verified_count == CountWhere(scored_claims, LAMBDA c : c.status = "verified")
        partial_count == CountWhere(scored_claims, LAMBDA c : c.status = "partially_verified")
        unverified_count == CountWhere(scored_claims, LAMBDA c : c.status = "unverified")
        flagged_count == CountWhere(scored_claims, LAMBDA c : c.trust_score < 40)
        total == Len(scored_claims)
        overall_score == OverallScore(scored_claims)
    IN [overall_trust_score |-> Round(overall_score),
        overall_label |-> OverallLabel(overall_score),
        summary |-> [total_claims |-> total, verified |-> verified_count,
                     partially_verified |-> partial_count, unverified |-> unverified_count,
                     flagged |-> flagged_count],
        percentages |-> [verified |-> Percent(verified_count, total),
                         partially_verified |-> Percent(partial_count, total),
                         unverified |-> Percent(unverified_count, total),
                         flagged |-> Percent(flagged_count, total)],
        scored_claims |-> scored_claims,
        reasoning |-> _generate_overall_reasoning(overall_score, scored_claims)]

score_resume_completeness(extracted_data) ==
    LET contact_score == (IF TruthyStr(extracted_data.email) THEN 10 ELSE 0)
                           + (IF TruthyStr(extracted_data.phone) THEN 10 ELSE 0)
        education_score == (IF TruthyStr(extracted_data.university) THEN 10 ELSE 0)
                             + (IF TruthyStr(extracted_data.cgpa) THEN 5 ELSE 0)
        num_projects == Len(extracted_data.projects)
        num_work == Len(extracted_data.work_experience)
        experience_score == (IF num_projects > 0 THEN Min(15, num_projects * 3) ELSE 0)
                              + (IF num_work > 0 THEN Min(10, num_work * 2) ELSE 0)
        num_skills == Len(extracted_data.skills)
        skills_score == IF num_skills > 0 THEN Min(20, num_skills * 2) ELSE 0
        links_score == (IF TruthyStr(extracted_data.github_username) THEN 10 ELSE 0)
                         + (IF TruthyStr(extracted_data.kaggle_username) THEN 5 ELSE 0)
                         + (IF TruthyStr(extracted_data.linkedin_url) THEN 5 ELSE 0)
        total_score == contact_score + education_score + experience_score + skills_score
                         + links_score
    IN [scores |-> [contact_info |-> contact_score, education |-> education_score,
                    experience |-> experience_score, skills |-> skills_score,
                    links |-> links_score],
        total_score |-> total_score,
        max_score |-> 100,
        percentage |-> Round(Frac(total_score * 100, 100))]

(***************************************************************************)
(* ATSEngine                                                               *)
(***************************************************************************)
\* the weights, in tenths
ATS_WEIGHTS == [jd_skill_match |-> Frac(4, 10), verified_claims |-> Frac(3, 10),
                resume_completeness |-> Frac(2, 10), timeline_consistency |-> Frac(1, 10)]

skill_keywords ==
    {"Python", "JavaScript", "Java", "C++", "React", "Angular", "Vue",
     "Node.js", "Django", "Flask", "Spring", "MongoDB", "PostgreSQL",
     "AWS", "Azure", "GCP", "Docker", "Kubernetes", "Git",
     "SQL", "REST", "APIs", "Agile", "Scrum", "Machine Learning",
     "Deep Learning", "TensorFlow", "PyTorch", "Data Analysis",
     "Communication", "Problem Solving", "Leadership", "Team Work"}

\* the keywords found in the text; the code returns them as a list in set order
extract_jd_skills(jd_text) == {skill \in skill_keywords : Contains(Lower(skill), Lower(jd_text))}

\* difflib: the longest block common to a and b, the earliest in a and then in b; <<i, j, k>>
LongestMatch(a, b) ==
    LET common(i, j, k) == i + k - 1 <= Len(a) /\ j + k - 1 <= Len(b)
                             /\ SubSeq(a, i, i + k - 1) = SubSeq(b, j, j + k - 1)
        inB(i, k) == CHOOSE x \in 1..Len(b) :
                       common(i, x, k) /\ \A y \in 1..(x - 1) : ~common(i, y, k)
        block(i, k) == <<i, inB(i, k), k>>
        inA(k) == block(CHOOSE x \in 1..Len(a) :
                          /\ \E j \in 1..Len(b) : common(x, j, k)
                          /\ \A y \in 1..(x - 1) : ~\E j \in 1..Len(b) : common(y, j, k),
                        k)
        longest(lens) == IF lens = {} THEN <<1, 1, 0>>
                         ELSE inA(CHOOSE x \in lens : \A y \in lens : y <= x)
    IN longest({k \in 1..Min(Len(a), Len(b)) :
                  \E i \in 1..Len(a) : \E j \in 1..Len(b) : common(i, j, k)})

RECURSIVE MatchingSize(_, _)
\* the total size of SequenceMatcher's matching blocks
MatchingSize(a, b) ==
    LET around(m) ==
          IF m[3] = 0 THEN 0
          ELSE m[3] + MatchingSize(SubSeq(a, 1, m[1] - 1), SubSeq(b, 1, m[2] - 1))
                    + MatchingSize(SubSeq(a, m[1] + m[3], Len(a)), SubSeq(b, m[2] + m[3], Len(b)))
    IN IF Len(a) = 0 \/ Len(b) = 0 THEN 0 ELSE around(LongestMatch(a, b))

\* SequenceMatcher(None, a, b).ratio() > 0.8, the ratio being 2 * matches / (len(a) + len(b))
SimilarityAbove80(a, b) ==
    Len(a) + Len(b) > 0 /\ 10 * 2 * MatchingSize(a, b) > 8 * (Len(a) + Len(b))

_skills_match(jd_skill, resume_skill) ==
    \/ jd_skill = resume_skill
    \/ Contains(jd_skill, resume_skill)
    \/ Contains(resume_skill, jd_skill)
    \/ SimilarityAbove80(jd_skill, resume_skill)

\* <<match_percentage, details>>; verified_tech is the consistency report or {}
calculate_skill_match(jd_skills, resume_skills, verified_tech) ==
    LET inResume(s) == \E i \in 1..Len(resume_skills) : _skills_match(Lower(s), Lower(resume_skills[i]))
        inVerified(s) ==
          /\ DOMAIN verified_tech # {}
          /\ \E i \in 1..Len(verified_tech.verified_skills) :
                _skills_match(Lower(s), Lower(verified_tech.verified_skills[i].skill))
        report(direct, matched) ==
          << Frac(Cardinality(matched) * 100, Cardinality(jd_skills)),
             [matched_skills |-> {IF s \in direct THEN s ELSE s \o " (verified)" : s \in matched},
              missing_skills |-> jd_skills \ matched,
              match_count |-> Cardinality(matched),
              total_jd_skills |-> Cardinality(jd_skills)] >>
        verified(direct) == report(direct, direct \cup {s \in jd_skills \ direct : inVerified(s)})
    IN IF jd_skills = {}
       THEN << Frac(0, 1), [matched_skills |-> {}, missing_skills |-> {}, match_count |-> 0,
                            total_jd_skills |-> 0] >>
       ELSE verified({s \in jd_skills : inResume(s)})

\* verified counts 1, partially_verified 0.5
calculate_claim_verification_rate(claim_results) ==
    LET verified_count == CountWhere(claim_results, LAMBDA c : c.status = "verified")
        partial_count == CountWhere(claim_results, LAMBDA c : c.status = "partially_verified")
        total == Len(claim_results)
    IN IF total = 0
       THEN << Frac(0, 1), [total_claims |-> 0, verified_claims |-> 0,
                            partially_verified_claims |-> 0] >>
       ELSE << Frac((2 * verified_count + partial_count) * 100, 2 * total),
               [total_claims |-> total, verified_claims |-> verified_count,
                partially_verified_claims |-> partial_count] >>

\* timeline_validation is the timeline report, None or {}
calculate_timeline_consistency_score(timeline_validation) ==
    IF timeline_validation = None \/ DOMAIN timeline_validation = {}
    THEN << Frac(0, 1), [consistent_timelines |-> 0, total_timelines |-> 0,
                         overlapping_periods |-> 0] >>
    ELSE LET project_timelines == timeline_validation.project_timelines
             work_timelines == timeline_validation.work_timelines
             verified == CountWhere(project_timelines, LAMBDA t : t.verified)
                           + CountWhere(work_timelines, LAMBDA t : t.verified)
             total == Len(project_timelines) + Len(work_timelines)
             overlaps == Len(timeline_validation.overall_consistency.overlapping_periods)
             consistent == Max(0, verified - overlaps * 5)
         IN << IF total > 0 THEN Frac(consistent * 100, total) ELSE Frac(100, 1),
               [consistent_timelines |-> consistent, total_timelines |-> total,
                overlapping_periods |-> overlaps] >>

\* core.config.ATS_WEIGHTS as the running process holds it
VARIABLE ats_weights

\* WeightedSum with the weights of the skill match and of the verified claims exchanged
WeightedSumExchanged(skill_match_pct, claim_verification_pct, completeness_pct, timeline_consistency_pct) ==
    FracAdd(FracAdd(FracMul(skill_match_pct, ats_weights.verified_claims),
                    FracMul(claim_verification_pct, ats_weights.jd_skill_match)),
            FracAdd(FracMul(completeness_pct, ats_weights.resume_completeness),
                    FracMul(timeline_consistency_pct, ats_weights.timeline_consistency)))

\* the weighted sum of the four percentages, before clamping and rounding
WeightedSum(skill_match_pct, claim_verification_pct, completeness_pct, timeline_consistency_pct) ==
    FracAdd(FracAdd(FracMul(skill_match_pct, ats_weights.jd_skill_match),
                    FracMul(claim_verification_pct, ats_weights.verified_claims)),
            FracAdd(FracMul(completeness_pct, ats_weights.resume_completeness),
                    FracMul(timeline_consistency_pct, ats_weights.timeline_consistency)))

\* ClampAndRound without the clamp
RoundUnclamped(ats_score) == Round(ats_score)

\* round(min(100, max(0, ats_score)))
ClampAndRound(ats_score) == Round(FracClamp(ats_score))

AtsStatus(ats_score) ==
    IF ats_score >= 80 THEN "Strong Match"
    ELSE IF ats_score >= 60 THEN "Moderate Match"
    ELSE IF ats_score >= 40 THEN "Weak Match"
    ELSE "Poor Match"

\* verification_results.get("tech_consistency", {}) is None when the key holds None,
\* and None has no attribute "get"
calculate_ats_score(jd_text, extracted_data, claim_results, verification_results, completeness_score) ==
    LET completeness_pct == Frac(completeness_score.percentage, 1)
        report(skill, claim, timeline, ats_score) ==
          [ats_score |-> ats_score,
           ats_status |-> AtsStatus(ats_score),
           breakdown |->
             [jd_skill_match |-> [percentage |-> skill[1], weight |-> ats_weights.jd_skill_match,
                                  details |-> skill[2]],
              verified_claims |-> [percentage |-> claim[1], weight |-> ats_weights.verified_claims,
                                   details |-> claim[2]],
              resume_completeness |-> [percentage |-> completeness_pct,
                                       weight |-> ats_weights.resume_completeness,
                                       details |-> completeness_score],
              timeline_consistency |-> [percentage |-> timeline[1],
                                        weight |-> ats_weights.timeline_consistency,
                                        details |-> timeline[2]]]]
        combine(skill, claim, timeline) ==
          report(skill, claim, timeline,
                 ClampAndRound(WeightedSum(skill[1], claim[1], completeness_pct, timeline[1])))
    IN IF verification_results.tech_consistency = None THEN Raise("AttributeError")
       ELSE combine(calculate_skill_match(extract_jd_skills(jd_text), extracted_data.skills,
                                          verification_results.tech_consistency.consistency_report),
                    calculate_claim_verification_rate(claim_results),
                    calculate_timeline_consistency_score(verification_results.timeline_validity))

(***************************************************************************)
(* scoring_utils                                                           *)
(***************************************************************************)
\* "not profile.get('exists')": True for False and for None
ProfileNotFound(exists) == exists # "true"

\* MissingProfileFlag with a lower severity
MissingProfileFlagMedium(source) ==
    [type |-> "missing_" \o source, severity |-> "medium"]

MissingProfileFlag(source) ==
    [type |-> "missing_" \o source, severity |-> "high"]

generate_red_flag_report(verification_results) ==
    LET tech_consistency == verification_results.tech_consistency
        github_results == verification_results.github_verification
        kaggle_results == verification_results.kaggle_verification
    IN (IF tech_consistency # None THEN tech_consistency.red_flags ELSE <<>>)
       \o (IF github_results # None /\ ProfileNotFound(github_results.user_profile.exists)
           THEN <<MissingProfileFlag("github")>> ELSE <<>>)
       \o (IF kaggle_results # None /\ ProfileNotFound(kaggle_results.user_profile.exists)
           THEN <<MissingProfileFlag("kaggle")>> ELSE <<>>)

\* Recommendation that does not look at the red flags
RecommendationIgnoringFlags(ats, trust, high_severity_flags) ==
    IF ats >= 80 /\ trust >= 85 THEN "STRONG RECOMMEND"
    ELSE IF ats >= 60 /\ trust >= 70 THEN "MODERATE RECOMMEND"
    ELSE IF ats >= 40 \/ trust >= 50 THEN "WEAK RECOMMEND"
    ELSE "NOT RECOMMENDED"

Recommendation(ats, trust, high_severity_flags) ==
    IF ats >= 80 /\ trust >= 85 /\ high_severity_flags = 0 THEN "STRONG RECOMMEND"
    ELSE IF ats >= 60 /\ trust >= 70 /\ high_severity_flags <= 1 THEN "MODERATE RECOMMEND"
    ELSE IF ats >= 40 \/ trust >= 50 THEN "WEAK RECOMMEND"
    ELSE "NOT RECOMMENDED"

generate_executive_summary(ats_score, trust_score, flags) ==
    LET ats == ats_score.ats_score
        trust == trust_score.overall_trust_score
        high_severity_flags == CountWhere(flags, LAMBDA f : f.severity = "high")
    IN [recommendation |-> Recommendation(ats, trust, high_severity_flags),
        ats_score |-> ats,
        trust_score |-> trust,
        red_flags_count |-> Len(flags),
        high_severity_flags |-> high_severity_flags]

(***************************************************************************)
(* The inputs of a run                                                     *)
(***************************************************************************)
SkillPool == {"Python", "js"}

ProjectPool ==
    { [name |-> "Veritas", technologies |-> <<"Python">>, timeline |-> "2021-2022",
       description |-> "resume checker"],
      [name |-> "Shop", technologies |-> <<>>, timeline |-> "n/a", description |-> ""] }

WorkPool ==
    { [company |-> "Acme", position |-> "Engineer", start_year |-> 2020, end_year |-> 2022,
       technologies |-> <<"JavaScript">>],
      [company |-> "Initech", position |-> "Intern", start_year |-> 2019,
       end_year |-> NoneYear, technologies |-> <<>>] }

\* <<github_username, kaggle_username, linkedin_url>>
LinkPool ==
    { <<NoneStr, NoneStr, NoneStr>>,
      <<"octocat", NoneStr, NoneStr>>,
      <<NoneStr, "datafan", "https://linkedin.com/in/jo">> }

CgpaPool == {NoneStr, "8.5"}

RepoPool ==
    { [name |-> "veritas", created_at |-> "2021-03-01T10:00:00Z",
       languages |-> << <<"Python", 1200>> >>],
      [name |-> "webapp", created_at |-> "2018-07-15T10:00:00Z",
       languages |-> << <<"JavaScript", 800>>, <<"Python", 50>> >>] }

JdPool == {"", "Python", "Python and AWS"}

Resumes ==
    { [skills |-> sk, projects |-> pr, work_experience |-> wk, claims |-> <<>>,
       github_username |-> ln[1], kaggle_username |-> ln[2], linkedin_url |-> ln[3],
       cgpa |-> cg, email |-> "jo@example.com", phone |-> NoneStr, university |-> "MIT"] :
        sk \in SeqsUpTo(SkillPool, MaxSkills), pr \in SeqsUpTo(ProjectPool, MaxProjects),
        wk \in SeqsUpTo(WorkPool, MaxWork), ln \in LinkPool, cg \in CgpaPool }

(***************************************************************************)
(* The state of a run                                                      *)
(***************************************************************************)
VARIABLES
    pc,                         \* the operation that runs next
    failure,                    \* the node whose exception ended the run, "" if none
    extracted_resume_data,
    remote_repos,               \* the repositories GitHub holds for the handle
    profile_requests,           \* the profile requests made so far, with their outcome
    github_requests,
                   \* the requests sent to the GitHub API so far, in order
    detected_claims,
    verification_results,
    trust_score_report,
    resume_completeness_score,
    red_flags,
    ats_score_report,
    executive_summary,
    github_cache,               \* the cache file of the GitHub handle, None if there is none
    now,                        \* the clock, in hours
    fetched,                    \* per audit run, the GitHub data it holds and has not saved yet
    timeline_str,               \* the argument of a call of parse_timeline
    parsed_timeline,            \* the result of that call
    graph_run                   \* the compiled workflow graph while it executes

vars == <<pc, failure, extracted_resume_data, remote_repos, profile_requests,
          github_requests, detected_claims,
          verification_results, trust_score_report, resume_completeness_score,
          red_flags, ats_score_report, executive_summary,
          ats_weights, github_cache, now, fetched, timeline_str, parsed_timeline,
          graph_run>>

\* the graph before it is invoked
GraphIdle ==
    [status |-> "idle", jd_given |-> FALSE, scheduled |-> {}, triggered |-> {},
     channels |-> <<>>, writes |-> {}, executions |-> <<>>, partial_runs |-> {}]

\* the audit runs that share the cache directory
Runs == {"run1", "run2"}

\* the variables that no node of the workflow writes
outside_vars == <<ats_weights, github_cache, now, fetched, timeline_str, parsed_timeline,
                  graph_run>>

\* the configuration as shipped, no cache file, no call of parse_timeline
OutsideIdle ==
    /\ ats_weights = ATS_WEIGHTS
    /\ github_cache = None
    /\ now = 0
    /\ fetched = [run \in Runs |-> None]
    /\ graph_run = GraphIdle
    /\ timeline_str = ""
    /\ parsed_timeline = <<>>

\* a state key that no node has written yet
Absent == <<>>

\* the variables that the nodes of the workflow write
workflow_vars == <<failure, extracted_resume_data, remote_repos, profile_requests,
                   detected_claims, verification_results, trust_score_report,
                   resume_completeness_score, red_flags, ats_score_report,
                   executive_summary>>

Init ==
    /\ pc = "claim_detector"
    /\ failure = ""
    /\ extracted_resume_data \in Resumes
    /\ remote_repos \in IF TruthyStr(extracted_resume_data.github_username)
                        THEN SeqsUpTo(RepoPool, MaxRemoteRepos) ELSE {<<>>}
    /\ profile_requests = <<>>
    /\ github_requests = <<>>
    /\ detected_claims = Absent
    /\ verification_results = Absent
    /\ trust_score_report = Absent
    /\ resume_completeness_score = Absent
    /\ red_flags = Absent
    /\ ats_score_report = Absent
    /\ executive_summary = Absent
    /\ OutsideIdle

\* claim_detector_node
ClaimDetector ==
    /\ pc = "claim_detector"
    /\ detected_claims' = prioritize_claims(extract_claims(extracted_resume_data))
    /\ pc' = "verify_github"
    /\ UNCHANGED <<failure, extracted_resume_data, remote_repos, profile_requests,
                   github_requests,
                   verification_results, trust_score_report, resume_completeness_score,
                   red_flags, ats_score_report, executive_summary>>
    /\ UNCHANGED outside_vars

\* verify_all_claims: the results before any verification has run
EmptyVerificationResults ==
    [github_verification |-> None, kaggle_verification |-> None,
     tech_consistency |-> None, timeline_validity |-> None,
     all_claim_results |-> <<>>, red_flags |-> <<>>]

\* verify_all_claims, GitHub verification
VerifyGithub ==
    /\ pc = "verify_github"
    /\ IF TruthyStr(extracted_resume_data.github_username)
       THEN \E user \in Responses, repos \in {"200", "500"}, langs \in {"200", "500"} :
              /\ verification_results' =
                   [EmptyVerificationResults EXCEPT !.github_verification =
                      verify_github(extracted_resume_data,
                                    [user |-> user, repos |-> repos, langs |-> langs],
                                    remote_repos)]
              /\ profile_requests' = Append(profile_requests, <<"github", user>>)
              /\ github_requests' =
                   github_requests
                     \o verify_github_requests(extracted_resume_data,
                                               [user |-> user, repos |-> repos, langs |-> langs],
                                               remote_repos)
       ELSE /\ verification_results' = EmptyVerificationResults
            /\ UNCHANGED <<profile_requests, github_requests>>
    /\ pc' = "verify_kaggle"
    /\ UNCHANGED <<failure, extracted_resume_data, remote_repos, detected_claims,
                   trust_score_report, resume_completeness_score, red_flags,
                   ats_score_report, executive_summary>>
    /\ UNCHANGED outside_vars

\* verify_all_claims, Kaggle verification
VerifyKaggle ==
    /\ pc = "verify_kaggle"
    /\ IF TruthyStr(extracted_resume_data.kaggle_username)
       THEN \E user \in Responses, fallback \in Responses, lists \in {"200", "500"} :
              /\ verification_results' =
                   [verification_results EXCEPT !.kaggle_verification =
                      verify_kaggle(extracted_resume_data,
                                    [user |-> user, fallback |-> fallback, lists |-> lists])]
              /\ profile_requests' =
                   profile_requests \o << <<"kaggle", user>> >>
                     \o (IF user \in {"200", "404", "exception"} THEN <<>>
                         ELSE << <<"kaggle_page", fallback>> >>)
              /\ UNCHANGED github_requests
       ELSE UNCHANGED <<verification_results, profile_requests, github_requests>>
    /\ pc' = "check_tech_consistency"
    /\ UNCHANGED <<failure, extracted_resume_data, remote_repos, detected_claims,
                   trust_score_report, resume_completeness_score, red_flags,
                   ats_score_report, executive_summary>>
    /\ UNCHANGED outside_vars

\* verify_all_claims, tech consistency check
CheckTechConsistency ==
    /\ pc = "check_tech_consistency"
    /\ IF Len(extracted_resume_data.skills) > 0 \/ Len(extracted_resume_data.projects) > 0
       THEN \E repos \in {"200", "500"}, langs \in {"200", "500"} :
              /\ verification_results' =
                   [verification_results EXCEPT !.tech_consistency =
                      check_tech_consistency(extracted_resume_data,
                                             [repos |-> repos, langs |-> langs], remote_repos)]
              /\ github_requests' =
                   github_requests
                     \o check_tech_consistency_requests(extracted_resume_data,
                                                        [repos |-> repos, langs |-> langs],
                                                        remote_repos)
       ELSE UNCHANGED <<verification_results, github_requests>>
    /\ pc' = "validate_timelines"
    /\ UNCHANGED <<failure, extracted_resume_data, remote_repos, profile_requests,
                   detected_claims, trust_score_report, resume_completeness_score, red_flags,
                   ats_score_report, executive_summary>>
    /\ UNCHANGED outside_vars

\* verify_all_claims, timeline validation; an exception leaves the node
ValidateTimelines ==
    /\ pc = "validate_timelines"
    /\ IF Len(extracted_resume_data.projects) > 0 \/ Len(extracted_resume_data.work_experience) > 0
       THEN \E repos \in {"200", "500"} :
              LET r == validate_timelines(extracted_resume_data, [repos |-> repos], remote_repos)
              IN /\ github_requests' =
                      github_requests \o validate_timelines_requests(extracted_resume_data)
                 /\ IF Raised(r)
                    THEN /\ pc' = "failed"
                         /\ failure' = "verification_orchestrator"
                         /\ UNCHANGED verification_results
                    ELSE /\ pc' = "evaluate_all_claims"
                         /\ verification_results' =
                              [verification_results EXCEPT !.timeline_validity = r]
                         /\ UNCHANGED failure
       ELSE /\ pc' = "evaluate_all_claims"
            /\ UNCHANGED <<verification_results, failure, github_requests>>
    /\ UNCHANGED <<extracted_resume_data, remote_repos, profile_requests, detected_claims,
                   trust_score_report, resume_completeness_score, red_flags,
                   ats_score_report, executive_summary>>
    /\ UNCHANGED outside_vars

\* verify_all_claims, claim evaluation; verification_orchestrator_node returns or raises
EvaluateAllClaims ==
    /\ pc = "evaluate_all_claims"
    /\ LET r == _evaluate_all_claims(extracted_resume_data, detected_claims, verification_results)
       IN IF Raised(r)
          THEN /\ pc' = "failed"
               /\ failure' = "verification_orchestrator"
               /\ UNCHANGED verification_results
          ELSE /\ pc' = "trust_scorer"
               /\ verification_results' =
                    [verification_results EXCEPT !.all_claim_results = r.returned]
               /\ UNCHANGED failure
    /\ UNCHANGED <<extracted_resume_data, remote_repos, profile_requests,
                   github_requests, detected_claims,
                   trust_score_report, resume_completeness_score, red_flags,
                   ats_score_report, executive_summary>>
    /\ UNCHANGED outside_vars

\* trust_scorer_node
TrustScorerNode ==
    /\ pc = "trust_scorer"
    /\ trust_score_report' = score_all_claims(verification_results.all_claim_results)
    /\ pc' = "completeness_scorer"
    /\ UNCHANGED <<failure, extracted_resume_data, remote_repos, profile_requests,
                   github_requests,
                   detected_claims, verification_results, resume_completeness_score,
                   red_flags, ats_score_report, executive_summary>>
    /\ UNCHANGED outside_vars

\* completeness_scorer_node
CompletenessScorerNode ==
    /\ pc = "completeness_scorer"
    /\ resume_completeness_score' = score_resume_completeness(extracted_resume_data)
    /\ pc' = "red_flag_detector"
    /\ UNCHANGED <<failure, extracted_resume_data, remote_repos, profile_requests,
                   github_requests,
                   detected_claims, verification_results, trust_score_report,
                   red_flags, ats_score_report, executive_summary>>
    /\ UNCHANGED outside_vars

\* red_flag_detector_node
RedFlagDetectorNode ==
    /\ pc = "red_flag_detector"
    /\ red_flags' = generate_red_flag_report(verification_results)
    /\ pc' = "ats_calculator"
    /\ UNCHANGED <<failure, extracted_resume_data, remote_repos, profile_requests,
                   github_requests,
                   detected_claims, verification_results, trust_score_report,
                   resume_completeness_score, ats_score_report, executive_summary>>
    /\ UNCHANGED outside_vars

\* ats_calculator_node; jd_text is the job description of the run
AtsCalculatorNode ==
    /\ pc = "ats_calculator"
    /\ \E jd_text \in JdPool :
         LET r == calculate_ats_score(jd_text, extracted_resume_data,
                                      verification_results.all_claim_results,
                                      verification_results, resume_completeness_score)
         IN IF Raised(r)
            THEN /\ pc' = "failed"
                 /\ failure' = "ats_calculator"
                 /\ UNCHANGED ats_score_report
            ELSE /\ pc' = "executive_summary"
                 /\ ats_score_report' = r
                 /\ UNCHANGED failure
    /\ UNCHANGED <<extracted_resume_data, remote_repos, profile_requests,
                   github_requests, detected_claims,
                   verification_results, trust_score_report, resume_completeness_score,
                   red_flags, executive_summary>>
    /\ UNCHANGED outside_vars

\* executive_summary_node
ExecutiveSummaryNode ==
    /\ pc = "executive_summary"
    /\ executive_summary' = generate_executive_summary(ats_score_report, trust_score_report,
                                                       red_flags)
    /\ pc' = "done"
    /\ UNCHANGED <<failure, extracted_resume_data, remote_repos, profile_requests,
                   github_requests,
                   detected_claims, verification_results, trust_score_report,
                   resume_completeness_score, red_flags, ats_score_report>>
    /\ UNCHANGED outside_vars

\* One run with the values: each node is taken at its last execution, with the
\* results of the nodes before it written.  The executions the graph makes
\* before that, on results not yet written, are in SpecGraph.
Next ==
    \/ ClaimDetector
    \/ VerifyGithub
    \/ VerifyKaggle
    \/ CheckTechConsistency
    \/ ValidateTimelines
    \/ EvaluateAllClaims
    \/ TrustScorerNode
    \/ CompletenessScorerNode
    \/ RedFlagDetectorNode
    \/ AtsCalculatorNode
    \/ ExecutiveSummaryNode

Spec == Init /\ [][Next]_vars

\* claim detection alone, on every resume
SpecDetect == Init /\ [][ClaimDetector]_vars

(***************************************************************************)
(* TrustScorer.score_all_claims called on any list of verdicts             *)
(***************************************************************************)
ScorePool == {0, 30, 39, 40, 50, 70, 85, 100}

StatusPool == {"verified", "partially_verified", "unverified"}

Verdict(status, trust_score) ==
    [claim |-> "Proficient in Python", claim_id |-> "skill_0", claim_type |-> "skill_match",
     value |-> "Python", status |-> status, trust_score |-> trust_score, evidence |-> <<>>,
     reasoning |-> ""]

VerdictPool == {Verdict(status, trust_score) : status \in StatusPool, trust_score \in ScorePool}

\* a resume without any entry
EmptyResume ==
    [skills |-> <<>>, projects |-> <<>>, work_experience |-> <<>>, claims |-> <<>>,
     github_username |-> NoneStr, kaggle_username |-> NoneStr, linkedin_url |-> NoneStr,
     cgpa |-> NoneStr, email |-> NoneStr, phone |-> NoneStr, university |-> NoneStr]

InitTrust ==
    /\ pc = "trust_scorer"
    /\ failure = ""
    /\ extracted_resume_data = EmptyResume
    /\ remote_repos = <<>>
    /\ profile_requests = <<>>
    /\ github_requests = <<>>
    /\ detected_claims = Absent
    /\ \E claim_results \in SeqsUpTo(VerdictPool, MaxVerdicts) :
         verification_results =
           [EmptyVerificationResults EXCEPT !.all_claim_results = claim_results]
    /\ trust_score_report = Absent
    /\ resume_completeness_score = Absent
    /\ red_flags = Absent
    /\ ats_score_report = Absent
    /\ executive_summary = Absent
    /\ OutsideIdle

SpecTrust == InitTrust /\ [][TrustScorerNode]_vars

(***************************************************************************)
(* ATSEngine.calculate_ats_score called on any reports                     *)
(***************************************************************************)
\* one verdict of each status
AtsVerdictPool == {Verdict("verified", 95), Verdict("partially_verified", 70),
                   Verdict("unverified", 30)}

\* the completeness percentage is whatever the caller passes
CompletenessPool == {0, 60, 100, 150}

TimelineRecord(verified) ==
    [project |-> "Veritas", claimed_timeline |-> "2021-2022",
     status |-> IF verified THEN "verified" ELSE "no_matching_repo", verified |-> verified]

TimelineReports ==
    {None} \cup
    { [stage |-> "timeline_validation", project_timelines |-> pts, work_timelines |-> <<>>,
       overall_consistency |-> [total_timeline_entries |-> Len(pts),
                                overlapping_periods |-> <<>>, is_chronological |-> TRUE,
                                consistency_score |-> 100]] :
        pts \in SeqsUpTo({TimelineRecord(TRUE), TimelineRecord(FALSE)}, MaxProjects) }

TechReports(skills) ==
    { [stage |-> "tech_consistency",
       consistency_report |-> check_consistency(skills, demonstrated, <<>>, <<>>),
       red_flags |-> detect_red_flags(skills,
                                      check_consistency(skills, demonstrated, <<>>, <<>>),
                                      demonstrated)] :
        demonstrated \in {<<>>, << <<"Python", 1>> >>} }

\* what the ATS calculator reads, as the nodes before it can have left it
AtsInputs ==
    /\ failure = ""
    /\ \E skills \in SeqsUpTo(SkillPool, MaxSkills) :
         /\ extracted_resume_data = [EmptyResume EXCEPT !.skills = skills]
         /\ \E tech \in TechReports(skills), timeline \in TimelineReports,
               claim_results \in SeqsUpTo(AtsVerdictPool, MaxVerdicts) :
              verification_results =
                [EmptyVerificationResults EXCEPT !.tech_consistency = tech,
                                                 !.timeline_validity = timeline,
                                                 !.all_claim_results = claim_results]
    /\ remote_repos = <<>>
    /\ profile_requests = <<>>
    /\ github_requests = <<>>
    /\ detected_claims = Absent
    /\ trust_score_report = Absent
    /\ \E percentage \in CompletenessPool :
         resume_completeness_score = [percentage |-> percentage]
    /\ red_flags = Absent
    /\ ats_score_report = Absent
    /\ executive_summary = Absent

InitAts ==
    /\ pc = "ats_calculator"
    /\ AtsInputs
    /\ OutsideIdle

SpecAts == InitAts /\ [][AtsCalculatorNode]_vars

(***************************************************************************)
(* core/config.py loaded with a weight table as someone has edited it,     *)
(* then the ATS calculator                                                 *)
(***************************************************************************)

\* ATS_WEIGHTS as shipped, with one weight raised, with one weight lowered
WeightTables ==
    {ATS_WEIGHTS,
     [ATS_WEIGHTS EXCEPT !.jd_skill_match = Frac(5, 10)],
     [ATS_WEIGHTS EXCEPT !.verified_claims = Frac(2, 10)]}

\* the import of core.config: the table is bound as written, nothing reads its sum
Startup ==
    /\ pc = "startup"
    /\ pc' = "ats_calculator"
    /\ UNCHANGED <<workflow_vars, github_requests, outside_vars>>

InitConfig ==
    /\ pc = "startup"
    /\ AtsInputs
    /\ ats_weights \in WeightTables
    /\ github_cache = None
    /\ now = 0
    /\ fetched = [run \in Runs |-> None]
    /\ graph_run = GraphIdle
    /\ timeline_str = ""
    /\ parsed_timeline = <<>>

NextConfig ==
    \/ Startup
    \/ AtsCalculatorNode

SpecConfig == InitConfig /\ [][NextConfig]_vars

(***************************************************************************)
(* generate_executive_summary called on any scores and red flags           *)
(***************************************************************************)
\* the scores around the thresholds of the decision table
AtsScorePool == {0, 39, 40, 59, 60, 79, 80, 100}

TrustScorePool == {0, 49, 50, 69, 70, 84, 85, 100}

FlagPool ==
    { [type |-> "high_unverified_rate", severity |-> "high"],
      [type |-> "undeclared_technologies", severity |-> "medium"],
      MissingProfileFlag("github") }

InitSummary ==
    /\ pc = "executive_summary"
    /\ failure = ""
    /\ extracted_resume_data = EmptyResume
    /\ remote_repos = <<>>
    /\ profile_requests = <<>>
    /\ github_requests = <<>>
    /\ detected_claims = Absent
    /\ verification_results = EmptyVerificationResults
    /\ \E trust \in TrustScorePool :
         trust_score_report = [overall_trust_score |-> trust,
                               overall_label |-> OverallLabel(Frac(trust, 1))]
    /\ resume_completeness_score = Absent
    /\ red_flags \in SeqsUpTo(FlagPool, MaxFlags)
    /\ \E ats \in AtsScorePool :
         ats_score_report = [ats_score |-> ats, ats_status |-> AtsStatus(ats)]
    /\ executive_summary = Absent
    /\ OutsideIdle

SpecSummary == InitSummary /\ [][ExecutiveSummaryNode]_vars

\* no resume loaded and no node run
WorkflowIdle ==
    /\ failure = ""
    /\ extracted_resume_data = EmptyResume
    /\ remote_repos = <<>>
    /\ profile_requests = <<>>
    /\ detected_claims = Absent
    /\ verification_results = EmptyVerificationResults
    /\ trust_score_report = Absent
    /\ resume_completeness_score = Absent
    /\ red_flags = <<>>
    /\ ats_score_report = Absent
    /\ executive_summary = Absent

(***************************************************************************)
(* verification/github_agent.py: the cache of GitHub data, with two audit  *)
(* runs that share the cache directory                                     *)
(***************************************************************************)

CACHE_EXPIRY_HOURS == 24

\* the hour at which the clock stops
MaxClock == 27

\* the number of requests after which no further one is sent
MaxRequests == 3

\* GitHubAgent._load_cache: the cached data, None without a file or when it has expired
_load_cache(cache, clock) ==
    IF cache = None THEN None
    ELSE IF clock - cache.timestamp > CACHE_EXPIRY_HOURS THEN None
    ELSE cache.data

\* GitHubAgent._save_cache: the file's content after the call, stamped with the time of the call
_save_cache(data, clock) == [timestamp |-> clock, data |-> data]

\* what a request of the given kind returns: the state of GitHub at the hour of the request
Fetched(kind, clock) == [kind |-> kind, as_of |-> clock]

\* GitHubAgent.verify_user_exists: one request, whatever the cache holds
VerifyUserExists(run) ==
    /\ pc = "github_agent"
    /\ Len(github_requests) < MaxRequests
    /\ github_requests' = Append(github_requests, "user")
    /\ fetched' = [fetched EXCEPT ![run] = Fetched("user", now)]
    /\ UNCHANGED <<pc, workflow_vars, graph_run, ats_weights, github_cache, now,
                   timeline_str, parsed_timeline>>

\* GitHubAgent.get_repositories: one request, whatever the cache holds
GetRepositories(run) ==
    /\ pc = "github_agent"
    /\ Len(github_requests) < MaxRequests
    /\ github_requests' = Append(github_requests, "repos")
    /\ fetched' = [fetched EXCEPT ![run] = Fetched("repos", now)]
    /\ UNCHANGED <<pc, workflow_vars, graph_run, ats_weights, github_cache, now,
                   timeline_str, parsed_timeline>>

\* a call of _save_cache with the data the run fetched
SaveCache(run) ==
    /\ pc = "github_agent"
    /\ fetched[run] # None
    /\ github_cache' = _save_cache(fetched[run], now)
    /\ fetched' = [fetched EXCEPT ![run] = None]
    /\ UNCHANGED <<pc, workflow_vars, graph_run, github_requests, ats_weights, now,
                   timeline_str, parsed_timeline>>

\* an hour passes
Tick ==
    /\ pc = "github_agent"
    /\ now < MaxClock
    /\ now' = now + 1
    /\ UNCHANGED <<pc, workflow_vars, graph_run, github_requests, ats_weights, github_cache,
                   fetched, timeline_str, parsed_timeline>>

\* the cache files an earlier process can have left: none, or one written
\* an hour ago, CACHE_EXPIRY_HOURS ago, or longer ago than that
InitCache ==
    /\ pc = "github_agent"
    /\ WorkflowIdle
    /\ github_requests = <<>>
    /\ ats_weights = ATS_WEIGHTS
    /\ now = CACHE_EXPIRY_HOURS + 1
    /\ \E kind \in {"user", "repos"}, written \in {0, 1, CACHE_EXPIRY_HOURS} :
         github_cache \in {None, _save_cache(Fetched(kind, written), written)}
    /\ fetched = [run \in Runs |-> None]
    /\ graph_run = GraphIdle
    /\ timeline_str = ""
    /\ parsed_timeline = <<>>

NextCache ==
    \/ \E run \in Runs : VerifyUserExists(run)
    \/ \E run \in Runs : GetRepositories(run)
    \/ \E run \in Runs : SaveCache(run)
    \/ Tick

SpecCache == InitCache /\ [][NextCache]_vars

(***************************************************************************)
(* verification/timeline_validator.py: parse_timeline called on a timeline *)
(* written as two years, its result written out again and parsed again     *)
(***************************************************************************)

\* years of four digits: the smallest, the largest, the turns of the centuries
\* around the years the pattern 20\d{2} matches, and two ordinary years
YearPool == {1000, 1999, 2000, 2021, 2022, 2099, 2100, 9999}

\* f"{start}-{end}"
FormatTimeline(start, end) == Str(start) \o "-" \o Str(end)

\* TimelineValidator.parse_timeline called on timeline_str
ParseTimeline ==
    /\ pc \in {"parse_timeline", "parse_again"}
    /\ parsed_timeline' = parse_timeline(timeline_str)
    /\ pc' = IF pc = "parse_timeline" THEN "format_timeline" ELSE "parsed_twice"
    /\ UNCHANGED <<workflow_vars, graph_run, github_requests, ats_weights, github_cache, now,
                   fetched, timeline_str>>

\* the parsed years written out as "start-end"
RenderTimeline ==
    /\ pc = "format_timeline"
    /\ timeline_str' = FormatTimeline(parsed_timeline[1], parsed_timeline[2])
    /\ pc' = "parse_again"
    /\ UNCHANGED <<workflow_vars, graph_run, github_requests, ats_weights, github_cache, now,
                   fetched, parsed_timeline>>

InitParse ==
    /\ pc = "parse_timeline"
    /\ WorkflowIdle
    /\ github_requests = <<>>
    /\ ats_weights = ATS_WEIGHTS
    /\ github_cache = None
    /\ now = 0
    /\ fetched = [run \in Runs |-> None]
    /\ graph_run = GraphIdle
    /\ \E s \in YearPool, e \in YearPool : timeline_str = FormatTimeline(s, e)
    /\ parsed_timeline = <<>>

NextParse ==
    \/ ParseTimeline
    \/ RenderTimeline

SpecParse == InitParse /\ [][NextParse]_vars

(***************************************************************************)
(* verify_all_claims, timeline validation alone, on resumes with several   *)
(* projects and employments and no GitHub handle                           *)
(***************************************************************************)

\* projects whose timelines touch at a boundary year, lie apart, or cannot be parsed
IntervalProjectPool ==
    { [name |-> "Veritas", technologies |-> <<>>, timeline |-> "2021-2022", description |-> ""],
      [name |-> "Atlas", technologies |-> <<>>, timeline |-> "2022-2023", description |-> ""],
      [name |-> "Nova", technologies |-> <<>>, timeline |-> "2025-2026", description |-> ""],
      [name |-> "Shop", technologies |-> <<>>, timeline |-> "n/a", description |-> ""] }

\* employments: one that ended, one that lies inside it, one with a null end_year
IntervalWorkPool ==
    { [company |-> "Acme", position |-> "Engineer", start_year |-> 2019, end_year |-> 2021,
       technologies |-> <<>>],
      [company |-> "Globex", position |-> "Intern", start_year |-> 2020, end_year |-> 2020,
       technologies |-> <<>>],
      [company |-> "Initech", position |-> "Lead", start_year |-> 2024, end_year |-> NoneYear,
       technologies |-> <<>>] }

InitTimeline ==
    /\ pc = "validate_timelines"
    /\ failure = ""
    /\ \E projects \in SeqsUpTo(IntervalProjectPool, MaxIntervals),
          work \in SeqsUpTo(IntervalWorkPool, MaxIntervals) :
         extracted_resume_data = [EmptyResume EXCEPT !.projects = projects,
                                                     !.work_experience = work]
    /\ remote_repos = <<>>
    /\ profile_requests = <<>>
    /\ github_requests = <<>>
    /\ detected_claims = Absent
    /\ verification_results = EmptyVerificationResults
    /\ trust_score_report = Absent
    /\ resume_completeness_score = Absent
    /\ red_flags = Absent
    /\ ats_score_report = Absent
    /\ executive_summary = Absent
    /\ OutsideIdle

SpecTimeline == InitTimeline /\ [][ValidateTimelines]_vars

(***************************************************************************)
(* verify_all_claims, technology consistency alone, on resumes with        *)
(* several skills, with and without a GitHub handle                        *)
(***************************************************************************)

\* skills: one as GitHub names it, a synonym, one of the pair cpp / c++, one without evidence
ClaimedSkillPool == {"Python", "js", "cpp", "Rust"}

TechProjectPool ==
    { [name |-> "Engine", technologies |-> <<"C++">>, timeline |-> "2021-2022",
       description |-> ""],
      [name |-> "Veritas", technologies |-> <<"Python", "Go">>, timeline |-> "2022-2023",
       description |-> ""] }

TechWorkPool ==
    { [company |-> "Acme", position |-> "Engineer", start_year |-> 2020, end_year |-> 2022,
       technologies |-> <<"JavaScript">>] }

InitTech ==
    /\ pc = "check_tech_consistency"
    /\ failure = ""
    /\ \E skills \in SeqsUpTo(ClaimedSkillPool, MaxClaimedSkills),
          projects \in SeqsUpTo(TechProjectPool, 1),
          work \in SeqsUpTo(TechWorkPool, 1),
          username \in {NoneStr, "octocat"} :
         extracted_resume_data = [EmptyResume EXCEPT !.skills = skills,
                                                     !.projects = projects,
                                                     !.work_experience = work,
                                                     !.github_username = username]
    /\ remote_repos \in IF TruthyStr(extracted_resume_data.github_username)
                        THEN SeqsUpTo(RepoPool, MaxRemoteRepos) ELSE {<<>>}
    /\ profile_requests = <<>>
    /\ github_requests = <<>>
    /\ detected_claims = Absent
    /\ verification_results = EmptyVerificationResults
    /\ trust_score_report = Absent
    /\ resume_completeness_score = Absent
    /\ red_flags = Absent
    /\ ats_score_report = Absent
    /\ executive_summary = Absent
    /\ OutsideIdle

SpecTech == InitTech /\ [][CheckTechConsistency]_vars

(***************************************************************************)
(* agents/graph.py: the compiled workflow graph.  The graph runs in steps: *)
(* the nodes scheduled for a step all read the state as the step found it, *)
(* their results are written when the step ends, and a node is scheduled   *)
(* for the next step when a node with an edge to it has run in this one.   *)
(* An edge added from a single node does not wait for the other edges into *)
(* the same node.  The values are left out: a key of the state is          *)
(* "initial" (the empty value the run was invoked with), "partial"         *)
(* (computed from a key that was initial or partial) or "complete".        *)
(***************************************************************************)
END == "__end__"

GraphNodes ==
    {"resume_parser", "structured_extraction", "claim_detector", "jd_extractor",
     "verification_orchestrator", "trust_scorer", "completeness_scorer", "ats_calculator",
     "red_flag_detector", "executive_summary", "final_report_generator"}

\* workflow.set_entry_point
EntryPoint == "resume_parser"

\* workflow.add_edge, in the order of the file
GraphEdges ==
    { <<"resume_parser", "structured_extraction">>,
      <<"structured_extraction", "claim_detector">>,
      <<"claim_detector", "jd_extractor">>,
      <<"claim_detector", "verification_orchestrator">>,
      <<"verification_orchestrator", "trust_scorer">>,
      <<"verification_orchestrator", "completeness_scorer">>,
      <<"verification_orchestrator", "red_flag_detector">>,
      <<"jd_extractor", "ats_calculator">>,
      <<"trust_scorer", "ats_calculator">>,
      <<"completeness_scorer", "ats_calculator">>,
      <<"red_flag_detector", "ats_calculator">>,
      <<"ats_calculator", "executive_summary">>,
      <<"executive_summary", "final_report_generator">>,
      <<"final_report_generator", END>> }

\* the keys of GraphState that main.py passes and the nodes read or write
StateKeys ==
    {"resume_file_path", "jd_text", "extracted_resume_data", "extracted_jd_data",
     "detected_claims", "verification_results", "trust_score_report", "ats_score_report",
     "resume_completeness_score", "red_flags", "executive_summary", "final_report"}

\* the keys a node reads from the state
NodeReads(node) ==
    CASE node = "resume_parser" -> {"resume_file_path"}
      [] node = "structured_extraction" -> {"extracted_resume_data"}
      [] node = "claim_detector" -> {"extracted_resume_data"}
      [] node = "jd_extractor" -> {"jd_text"}
      [] node = "verification_orchestrator" -> {"extracted_resume_data", "detected_claims"}
      [] node = "trust_scorer" -> {"verification_results"}
      [] node = "completeness_scorer" -> {"extracted_resume_data"}
      [] node = "red_flag_detector" -> {"verification_results"}
      [] node = "ats_calculator" -> {"jd_text", "extracted_resume_data", "verification_results",
                                     "resume_completeness_score"}
      [] node = "executive_summary" -> {"ats_score_report", "trust_score_report", "red_flags"}
      [] node = "final_report_generator" ->
           {"extracted_resume_data", "extracted_jd_data", "detected_claims",
            "verification_results", "trust_score_report", "ats_score_report",
            "resume_completeness_score", "red_flags", "executive_summary"}

\* the key a node returns
NodeWrites(node) ==
    CASE node = "resume_parser" -> "extracted_resume_data"
      [] node = "structured_extraction" -> "extracted_resume_data"
      [] node = "claim_detector" -> "detected_claims"
      [] node = "jd_extractor" -> "extracted_jd_data"
      [] node = "verification_orchestrator" -> "verification_results"
      [] node = "trust_scorer" -> "trust_score_report"
      [] node = "completeness_scorer" -> "resume_completeness_score"
      [] node = "red_flag_detector" -> "red_flags"
      [] node = "ats_calculator" -> "ats_score_report"
      [] node = "executive_summary" -> "executive_summary"
      [] node = "final_report_generator" -> "final_report"

\* app.stream(inputs): the path and the job description text (empty when the
\* user skipped it) are given, every other key is empty
Invoked(jd_given) ==
    [status |-> "running",
     jd_given |-> jd_given,
     scheduled |-> {EntryPoint},
     triggered |-> {},
     channels |-> [key \in StateKeys |->
                     IF key \in {"resume_file_path", "jd_text"} THEN "complete" ELSE "initial"],
     writes |-> {},
     executions |-> [node \in GraphNodes |-> 0],
     partial_runs |-> {}]

\* a node scheduled for this step runs and returns
RunNode(node) ==
    /\ pc = "graph"
    /\ graph_run.status = "running"
    /\ node \in graph_run.scheduled
    /\ LET whole == \A key \in NodeReads(node) : graph_run.channels[key] = "complete"
       IN graph_run' =
            [graph_run EXCEPT
               !.scheduled = @ \ {node},
               !.triggered = @ \cup {edge[2] : edge \in {e \in GraphEdges : e[1] = node}},
               !.writes = @ \cup {<<NodeWrites(node), IF whole THEN "complete" ELSE "partial">>},
               !.executions[node] = @ + 1,
               !.partial_runs = IF whole THEN @ ELSE @ \cup {node}]
    /\ UNCHANGED <<pc, workflow_vars, github_requests, ats_weights, github_cache, now,
                   fetched, timeline_str, parsed_timeline>>

\* a node scheduled for this step raises: the exception leaves invoke;
\* jd_extractor returns at once, without a call that can fail, when no job description is given
NodeRaises(node) ==
    /\ pc = "graph"
    /\ graph_run.status = "running"
    /\ node \in graph_run.scheduled
    /\ node = "jd_extractor" => graph_run.jd_given
    /\ graph_run' = [graph_run EXCEPT !.status = "failed", !.scheduled = {},
                                      !.triggered = {}, !.writes = {}]
    /\ UNCHANGED <<pc, workflow_vars, github_requests, ats_weights, github_cache, now,
                   fetched, timeline_str, parsed_timeline>>

\* every node of the step has returned: the results are written and the
\* nodes that were triggered make the next step
EndStep ==
    /\ pc = "graph"
    /\ graph_run.status = "running"
    /\ graph_run.scheduled = {}
    /\ graph_run' =
         [graph_run EXCEPT
            !.channels = [key \in StateKeys |->
                            IF \E w \in graph_run.writes : w[1] = key
                            THEN (CHOOSE w \in graph_run.writes : w[1] = key)[2]
                            ELSE @[key]],
            !.writes = {},
            !.scheduled = graph_run.triggered \ {END},
            !.triggered = {},
            !.status = IF graph_run.triggered \ {END} = {} THEN "done" ELSE "running"]
    /\ UNCHANGED <<pc, workflow_vars, github_requests, ats_weights, github_cache, now,
                   fetched, timeline_str, parsed_timeline>>

InitGraph ==
    /\ pc = "graph"
    /\ WorkflowIdle
    /\ github_requests = <<>>
    /\ ats_weights = ATS_WEIGHTS
    /\ github_cache = None
    /\ now = 0
    /\ fetched = [run \in Runs |-> None]
    /\ timeline_str = ""
    /\ parsed_timeline = <<>>
    /\ \E jd_given \in BOOLEAN : graph_run = Invoked(jd_given)

NextGraph ==
    \/ \E node \in GraphNodes : RunNode(node)
    \/ \E node \in GraphNodes : NodeRaises(node)
    \/ EndStep

SpecGraph == InitGraph /\ [][NextGraph]_vars

(***************************************************************************)
(* Stages of a run, as state predicates                                    *)
(***************************************************************************)
\* verify_all_claims has returned
ClaimsEvaluated ==
    \/ pc \in {"trust_scorer", "completeness_scorer", "red_flag_detector", "ats_calculator",
               "executive_summary", "done"}
    \/ pc = "failed" /\ failure = "ats_calculator"

\* generate_red_flag_report has returned
RedFlagsReported ==
    \/ pc \in {"ats_calculator", "executive_summary", "done"}
    \/ pc = "failed" /\ failure = "ats_calculator"

\* the report exists and is a dictionary with fields
Produced(report) == DOMAIN report # {}

GithubRan == ClaimsEvaluated /\ verification_results.github_verification # None
KaggleRan == ClaimsEvaluated /\ verification_results.kaggle_verification # None

GithubExists == verification_results.github_verification.user_profile.exists
KaggleExists == verification_results.kaggle_verification.user_profile.exists

\* the flags the consistency analyzer handed over
ConsistencyFlags ==
    IF verification_results.tech_consistency = None THEN <<>>
    ELSE verification_results.tech_consistency.red_flags

HasFlag(flags, type) == \E i \in 1..Len(flags) : flags[i].type = type

(***************************************************************************)
(* C1.  A run on a resume with no skills and no projects, for which        *)
(* verify_all_claims leaves tech_consistency unset, completes without an   *)
(* error, whatever GitHub and Kaggle answer.                               *)
(***************************************************************************)
C1_RunWithoutSkillsAndProjectsCompletes ==
    (Len(extracted_resume_data.skills) = 0 /\ Len(extracted_resume_data.projects) = 0)
      => failure = ""

(***************************************************************************)
(* C2.  For every list of verdicts with trust scores in [0,100],           *)
(* score_all_claims returns overall_trust_score in [0,100]; for the empty  *)
(* list it returns score 0 and total_claims 0.                             *)
(***************************************************************************)
C2_OverallTrustScoreInRange ==
    Produced(trust_score_report) =>
      /\ trust_score_report.overall_trust_score \in 0..100
      /\ Len(verification_results.all_claim_results) = 0 =>
           /\ trust_score_report.overall_trust_score = 0
           /\ trust_score_report.summary.total_claims = 0

\* the empty list has been scored
C2_EmptyListScored ==
    Produced(trust_score_report) /\ Len(verification_results.all_claim_results) = 0

(***************************************************************************)
(* C3.  With the weights 0.4/0.3/0.2/0.1, the ats_score returned by        *)
(* calculate_ats_score is an integer in [0,100] for every combination of   *)
(* the four component percentages.                                         *)
(***************************************************************************)
C3_AtsScoreInRange ==
    Produced(ats_score_report) => ats_score_report.ats_score \in 0..100

\* a score was computed from a weighted sum above 100
C3_ScoreClamped ==
    /\ Produced(ats_score_report)
    /\ ats_score_report.ats_score = 100
    /\ ~FracLe(WeightedSum(ats_score_report.breakdown.jd_skill_match.percentage,
                           ats_score_report.breakdown.verified_claims.percentage,
                           ats_score_report.breakdown.resume_completeness.percentage,
                           ats_score_report.breakdown.timeline_consistency.percentage), 100)

(***************************************************************************)
(* C4.  An existence check answers exists = true for a success response,   *)
(* exists = false for a 404, and exists = unknown for every other outcome: *)
(* exists = false is returned only when a request of the check was         *)
(* answered 404.                                                           *)
(***************************************************************************)
Answered(source, answer) == <<source, answer>> \in Range(profile_requests)

C4_ExistsFalseOnlyFor404 ==
    /\ (GithubRan /\ GithubExists = "false") => Answered("github", "404")
    /\ (KaggleRan /\ KaggleExists = "false")
         => (Answered("kaggle", "404") \/ Answered("kaggle_page", "404"))

(***************************************************************************)
(* C5.  When an existence check ends with exists = unknown, the red-flag   *)
(* report holds no missing_github / missing_kaggle flag for it.            *)
(***************************************************************************)
C5_NoMissingFlagForUnknown ==
    RedFlagsReported =>
      /\ (GithubRan /\ GithubExists = "unknown") => ~HasFlag(red_flags, "missing_github")
      /\ (KaggleRan /\ KaggleExists = "unknown") => ~HasFlag(red_flags, "missing_kaggle")

(***************************************************************************)
(* C6.  When a profile check ran and ended with exists = false, the        *)
(* red-flag report holds a high-severity missing_github (missing_kaggle)   *)
(* flag after all the flags of the consistency analyzer, none of which is  *)
(* dropped.                                                                *)
(***************************************************************************)
MissingFlagAfter(flags, type, n) ==
    \E i \in (n + 1)..Len(flags) : flags[i].type = type /\ flags[i].severity = "high"

C6_MissingProfileFlagged ==
    RedFlagsReported =>
      /\ Len(red_flags) >= Len(ConsistencyFlags)
      /\ SubSeq(red_flags, 1, Len(ConsistencyFlags)) = ConsistencyFlags
      /\ (GithubRan /\ GithubExists = "false")
           => MissingFlagAfter(red_flags, "missing_github", Len(ConsistencyFlags))
      /\ (KaggleRan /\ KaggleExists = "false")
           => MissingFlagAfter(red_flags, "missing_kaggle", Len(ConsistencyFlags))

\* a missing GitHub profile reported together with flags of the consistency analyzer
C6_MissingGithubAfterConsistencyFlags ==
    /\ RedFlagsReported
    /\ GithubRan /\ GithubExists = "false"
    /\ Len(ConsistencyFlags) > 0

(***************************************************************************)
(* C7.  verify_all_claims returns exactly one verdict per input claim, in  *)
(* the order of the input list: the i-th verdict carries the id of the     *)
(* i-th claim, whatever the evidence sources answered.                     *)
(***************************************************************************)
C7_OneVerdictPerClaimInOrder ==
    ClaimsEvaluated =>
      /\ Len(verification_results.all_claim_results) = Len(detected_claims)
      /\ \A i \in 1..Len(detected_claims) :
           verification_results.all_claim_results[i].claim_id = detected_claims[i].id

\* several claims were evaluated after a profile request
C7_SeveralClaimsEvaluated ==
    /\ pc = "trust_scorer"
    /\ Len(detected_claims) >= 3
    /\ Len(profile_requests) > 0

(***************************************************************************)
(* C8.  prioritize_claims returns a permutation of its input in which      *)
(* high precedes medium precedes low and claims of equal severity keep     *)
(* their input order.                                                      *)
(***************************************************************************)
Occurrences(seq, x) == Cardinality({i \in 1..Len(seq) : seq[i] = x})

IsPermutation(out, in) ==
    /\ Len(out) = Len(in)
    /\ \A x \in Range(in) \cup Range(out) : Occurrences(out, x) = Occurrences(in, x)

OrderedBySeverity(out) ==
    \A i, j \in 1..Len(out) : i < j => SeverityKey(out[i]) <= SeverityKey(out[j])

\* the claims carry distinct ids, so each has one position in out
PositionIn(out, x) == CHOOSE i \in 1..Len(out) : out[i] = x

KeepsInputOrder(out, in) ==
    \A i, j \in 1..Len(in) :
      (i < j /\ SeverityKey(in[i]) = SeverityKey(in[j]))
        => PositionIn(out, in[i]) < PositionIn(out, in[j])

C8_PrioritizeIsStableSort ==
    pc # "claim_detector" =>
      /\ IsPermutation(detected_claims, extract_claims(extracted_resume_data))
      /\ OrderedBySeverity(detected_claims)
      /\ KeepsInputOrder(detected_claims, extract_claims(extracted_resume_data))

\* the sort moved a claim and kept two claims of equal severity
C8_SortMovedClaims ==
    /\ pc = "verify_github"
    /\ detected_claims # extract_claims(extracted_resume_data)
    /\ \E i, j \in 1..Len(detected_claims) :
         i < j /\ SeverityKey(detected_claims[i]) = SeverityKey(detected_claims[j])

(***************************************************************************)
(* C9.  A skill_match claim is verified with score 95 when its skill,      *)
(* normalized through the synonym table, is in the verified set of the     *)
(* consistency report, partially_verified with score 70 when it is in the  *)
(* partial set, and unverified with score 30 otherwise.                    *)
(***************************************************************************)
InReport(entries, skill) == \E k \in 1..Len(entries) : entries[k].skill = skill

SkillVerdictAsSpecified(verdict, report) ==
    IF InReport(report.verified_skills, normalize_tech(verdict.value))
    THEN verdict.status = "verified" /\ verdict.trust_score = 95
    ELSE IF InReport(report.partially_verified_skills, normalize_tech(verdict.value))
    THEN verdict.status = "partially_verified" /\ verdict.trust_score = 70
    ELSE verdict.status = "unverified" /\ verdict.trust_score = 30

C9_SkillVerdictFollowsNormalizedSkill ==
    ClaimsEvaluated =>
      \A i \in 1..Len(verification_results.all_claim_results) :
        verification_results.all_claim_results[i].claim_type = "skill_match"
          => SkillVerdictAsSpecified(verification_results.all_claim_results[i],
                                     verification_results.tech_consistency.consistency_report)

(***************************************************************************)
(* C10.  The link_verification claim that claim extraction creates for the *)
(* GitHub (Kaggle) handle is verified with score 100 if that profile has   *)
(* exists = true, and unverified with score 0 otherwise.                   *)
(***************************************************************************)
LinkVerdictAsSpecified(verdict, exists) ==
    IF exists = "true" THEN verdict.status = "verified" /\ verdict.trust_score = 100
    ELSE verdict.status = "unverified" /\ verdict.trust_score = 0

C10_LinkVerdictFollowsProfile ==
    ClaimsEvaluated =>
      \A i \in 1..Len(verification_results.all_claim_results) :
        LET verdict == verification_results.all_claim_results[i]
        IN /\ (/\ verdict.claim_type = "link_verification"
               /\ verdict.claim = "Has active github username: "
                                    \o extracted_resume_data.github_username)
                => LinkVerdictAsSpecified(verdict, GithubExists)
           /\ (/\ verdict.claim_type = "link_verification"
               /\ verdict.claim = "Has active kaggle username: "
                                    \o extracted_resume_data.kaggle_username)
                => LinkVerdictAsSpecified(verdict, KaggleExists)

(***************************************************************************)
(* C11.  A timeline claim is verified with score 90 only if the timeline   *)
(* record of the project or employment the claim is about has              *)
(* verified = true; without such a record it stays unverified with         *)
(* score 0.                                                                *)
(***************************************************************************)
\* the timeline validation holds a verified record for the subject of the verdict
VerifiedRecordFor(verdict, timeline_info) ==
    \/ \E k \in 1..Len(timeline_info.project_timelines) :
         /\ verdict.claim = "Completed " \o timeline_info.project_timelines[k].project
                              \o " during " \o verdict.value
         /\ timeline_info.project_timelines[k].verified
    \/ \E k \in 1..Len(timeline_info.work_timelines) :
         /\ verdict.claim = "Worked at " \o timeline_info.work_timelines[k].company
                              \o " from " \o verdict.value
         /\ timeline_info.work_timelines[k].verified

C11_TimelineVerdictFollowsOwnRecord ==
    ClaimsEvaluated =>
      \A i \in 1..Len(verification_results.all_claim_results) :
        LET verdict == verification_results.all_claim_results[i]
        IN (/\ verdict.claim_type = "timeline"
            /\ ~VerifiedRecordFor(verdict, verification_results.timeline_validity))
             => (verdict.status = "unverified" /\ verdict.trust_score = 0)

(***************************************************************************)
(* C12.  A claim whose claim_type is none of skill_match,                  *)
(* link_verification, numeric, timeline (a depth claim, for example) gets  *)
(* status unverified, score 0 and a reasoning that says that the claim     *)
(* type was not recognized.                                                *)
(***************************************************************************)
KnownClaimTypes == {"skill_match", "link_verification", "numeric", "timeline"}

\* the reasoning speaks of the type of the claim
ReasoningNamesType(reasoning) ==
    \/ Contains("type", Lower(reasoning))
    \/ Contains("unrecognized", Lower(reasoning))
    \/ Contains("unknown", Lower(reasoning))

C12_UnknownTypeReportedAsUnrecognized ==
    ClaimsEvaluated =>
      \A i \in 1..Len(verification_results.all_claim_results) :
        LET verdict == verification_results.all_claim_results[i]
        IN verdict.claim_type \notin KnownClaimTypes
             => /\ verdict.status = "unverified"
                /\ verdict.trust_score = 0
                /\ ReasoningNamesType(verdict.reasoning)

(***************************************************************************)
(* C13.  generate_executive_summary returns the recommendation of the      *)
(* first matching row of the table: (1) ats >= 80, trust >= 85 and no      *)
(* high-severity flag: strong; (2) ats >= 60, trust >= 70 and at most one  *)
(* high-severity flag: moderate; (3) ats >= 40 or trust >= 50: weak;       *)
(* (4) otherwise not recommended.  high_severity_flags counts the flags    *)
(* of severity high and red_flags_count is the length of the list.         *)
(***************************************************************************)
HighSeverityCount == Cardinality({i \in 1..Len(red_flags) : red_flags[i].severity = "high"})

Row1 ==
    /\ ats_score_report.ats_score >= 80
    /\ trust_score_report.overall_trust_score >= 85
    /\ HighSeverityCount = 0

Row2 ==
    /\ ats_score_report.ats_score >= 60
    /\ trust_score_report.overall_trust_score >= 70
    /\ HighSeverityCount <= 1

Row3 == ats_score_report.ats_score >= 40 \/ trust_score_report.overall_trust_score >= 50

C13_FirstMatchingRowWins ==
    Produced(executive_summary) =>
      /\ Row1 => executive_summary.recommendation = "STRONG RECOMMEND"
      /\ (~Row1 /\ Row2) => executive_summary.recommendation = "MODERATE RECOMMEND"
      /\ (~Row1 /\ ~Row2 /\ Row3) => executive_summary.recommendation = "WEAK RECOMMEND"
      /\ (~Row1 /\ ~Row2 /\ ~Row3) => executive_summary.recommendation = "NOT RECOMMENDED"
      /\ executive_summary.high_severity_flags = HighSeverityCount
      /\ executive_summary.red_flags_count = Len(red_flags)

\* scores of the first row held back by two high-severity flags among the red flags
C13_StrongScoresWithTwoHighFlags ==
    /\ Produced(executive_summary)
    /\ ats_score_report.ats_score >= 80
    /\ trust_score_report.overall_trust_score >= 85
    /\ HighSeverityCount = 2
    /\ Len(red_flags) = 2
    /\ executive_summary.recommendation = "WEAK RECOMMEND"

(***************************************************************************)
(* C14.  calculate_ats_score returns ats_score = round(0.4 jd_skill_match  *)
(* + 0.3 claim_verification + 0.2 completeness + 0.1 timeline_consistency) *)
(* clamped to [0,100], where claim_verification counts a verified claim    *)
(* as 1, a partially_verified claim as 0.5 and any other claim as 0,       *)
(* averaged over all claims (0 for no claim), and ats_status is the band   *)
(* of that score: >= 80 strong, >= 60 moderate, >= 40 weak, else poor.     *)
(***************************************************************************)
StatusCount(verdicts, status) ==
    Cardinality({i \in 1..Len(verdicts) : verdicts[i].status = status})

\* the percentage of verified claims, a partially verified claim counting one half
SpecifiedClaimRate(verdicts) ==
    IF Len(verdicts) = 0 THEN Frac(0, 1)
    ELSE Frac((2 * StatusCount(verdicts, "verified")
                 + StatusCount(verdicts, "partially_verified")) * 100,
              2 * Len(verdicts))

SameNumber(a, b) == a.num * b.den = b.num * a.den

SpecifiedAtsScore(skill, claim, completeness, timeline) ==
    Round(FracClamp(
      FracAdd(FracAdd(FracMul(skill, Frac(4, 10)), FracMul(claim, Frac(3, 10))),
              FracAdd(FracMul(completeness, Frac(2, 10)), FracMul(timeline, Frac(1, 10))))))

SpecifiedAtsBand(score) ==
    IF score >= 80 THEN "Strong Match"
    ELSE IF score >= 60 THEN "Moderate Match"
    ELSE IF score >= 40 THEN "Weak Match"
    ELSE "Poor Match"

C14_AtsScoreIsRoundedWeightedSum ==
    Produced(ats_score_report) =>
      /\ SameNumber(ats_score_report.breakdown.verified_claims.percentage,
                    SpecifiedClaimRate(verification_results.all_claim_results))
      /\ ats_score_report.ats_score =
           SpecifiedAtsScore(ats_score_report.breakdown.jd_skill_match.percentage,
                             SpecifiedClaimRate(verification_results.all_claim_results),
                             Frac(resume_completeness_score.percentage, 1),
                             ats_score_report.breakdown.timeline_consistency.percentage)
      /\ ats_score_report.ats_status = SpecifiedAtsBand(ats_score_report.ats_score)

\* the components 50, 50, 60 and 100 gave the score 57, a weak match
C14_ExampleScored ==
    /\ Produced(ats_score_report)
    /\ SameNumber(ats_score_report.breakdown.jd_skill_match.percentage, Frac(50, 1))
    /\ SameNumber(ats_score_report.breakdown.verified_claims.percentage, Frac(50, 1))
    /\ resume_completeness_score.percentage = 60
    /\ SameNumber(ats_score_report.breakdown.timeline_consistency.percentage, Frac(100, 1))
    /\ ats_score_report.ats_score = 57
    /\ ats_score_report.ats_status = "Weak Match"

(***************************************************************************)
(* C15.  In every trust report overall_trust_score is the mean of the      *)
(* trust scores of the claims, rounded to an integer, and overall_label    *)
(* is the band of that reported score: >= 85 Highly Trustworthy, 70..84    *)
(* Partially Trustworthy, 50..69 Moderately Trustworthy, below 50 Low      *)
(* Trustworthiness.                                                        *)
(***************************************************************************)
RECURSIVE TrustScoreSum(_, _)
TrustScoreSum(verdicts, i) ==
    IF i > Len(verdicts) THEN 0 ELSE verdicts[i].trust_score + TrustScoreSum(verdicts, i + 1)

SpecifiedTrustScore(verdicts) ==
    IF Len(verdicts) = 0 THEN 0 ELSE Round(Frac(TrustScoreSum(verdicts, 1), Len(verdicts)))

SpecifiedTrustBand(score) ==
    IF score >= 85 THEN "Highly Trustworthy"
    ELSE IF score >= 70 THEN "Partially Trustworthy"
    ELSE IF score >= 50 THEN "Moderately Trustworthy"
    ELSE "Low Trustworthiness"

C15_LabelIsBandOfReportedScore ==
    Produced(trust_score_report) =>
      /\ trust_score_report.overall_trust_score =
           SpecifiedTrustScore(verification_results.all_claim_results)
      /\ trust_score_report.overall_label =
           SpecifiedTrustBand(trust_score_report.overall_trust_score)

(***************************************************************************)
(* C16.  Within one verify_all_claims run no request to GitHub is          *)
(* repeated: the existence check and the repository listing are sent at    *)
(* most once for the handle, and the language listing at most once for     *)
(* each repository.                                                        *)
(***************************************************************************)
C16_NoGithubRequestRepeated ==
    \A i, j \in 1..Len(github_requests) : i < j => github_requests[i] # github_requests[j]


\* a cache entry younger than 24 hours
FreshEntry == github_cache # None /\ now - github_cache.timestamp < CACHE_EXPIRY_HOURS

\* C17: while the cache holds an entry younger than 24 hours, no step sends a
\* request to GitHub: the existence check and the repository listing are
\* answered from the cache
C17_FreshCacheAnswersWithoutRequest ==
    [][FreshEntry => github_requests' = github_requests]_vars

\* the data a cache entry holds was fetched at the hour of its timestamp
StampedWhenFetched(cache) == cache # None => cache.timestamp = cache.data.as_of

\* C18: whatever the interleaving of two runs, a write of the cache never
\* replaces data fetched later by data fetched earlier, and the timestamp
\* stored is the hour at which the stored data was fetched
C18_CacheWriteKeepsLatestFetch ==
    [][/\ StampedWhenFetched(github_cache')
       /\ (github_cache # None /\ github_cache' # None)
            => github_cache'.data.as_of >= github_cache.data.as_of]_vars


\* the four weights of the table add up to exactly 1
SumsToOne(weights) ==
    LET total == FracAdd(FracAdd(weights.jd_skill_match, weights.verified_claims),
                         FracAdd(weights.resume_completeness, weights.timeline_consistency))
    IN total.num = total.den

\* C19: a weight table whose weights do not add up to 1.0 is rejected when the
\* program starts, so the program never gets past its startup with such a
\* table and calculate_ats_score never returns a score computed with it
C19_MalformedWeightsRejectedAtStartup ==
    /\ pc # "startup" => SumsToOne(ats_weights)
    /\ Produced(ats_score_report) => SumsToOne(ats_weights)


\* the string "YYYY-YYYY" of two years
Canonical(s, e) == Str(s) \o "-" \o Str(e)

\* C20: for every pair of four-digit years (s, e), parse_timeline of "s-e" is
\* (s, e); hence the result written out as "YYYY-YYYY" is the string that was
\* parsed, and parsing it again gives the same pair
C20_CanonicalTimelineRoundTrips ==
    parsed_timeline # <<>> =>
        /\ \A s \in YearPool, e \in YearPool :
             timeline_str = Canonical(s, e) => parsed_timeline = <<s, e>>
        /\ \E s \in YearPool, e \in YearPool : timeline_str = Canonical(s, e)

\* "1999-2100" has been parsed, written out and parsed again
C20_ParsedTwice ==
    /\ pc = "parsed_twice"
    /\ timeline_str = "1999-2100"
    /\ parsed_timeline = <<1999, 2100>>


\* the sequence with its entries i and j exchanged
Swap(seq, i, j) ==
    [k \in 1..Len(seq) |-> IF k = i THEN seq[j] ELSE IF k = j THEN seq[i] ELSE seq[k]]

\* what a call of validate_overall_consistency gave: an error, or the overlapping
\* pairs, each as the set of its two entries with the period, their number and the score
ConsistencyOutcome(r) ==
    IF Raised(r)
    THEN [error |-> TRUE, pairs |-> {}, count |-> 0, score |-> 0]
    ELSE [error |-> FALSE,
          pairs |-> { <<{r.overlapping_periods[k].type1, r.overlapping_periods[k].type2},
                        r.overlapping_periods[k].period>> :
                      k \in 1..Len(r.overlapping_periods) },
          count |-> Len(r.overlapping_periods),
          score |-> r.consistency_score]

\* the timeline validation has run on a resume with a project or an employment
TimelinesValidated ==
    /\ pc # "validate_timelines"
    /\ Len(extracted_resume_data.projects) + Len(extracted_resume_data.work_experience) > 0

\* the outcome of the call the timeline validation made
ReportedOutcome ==
    IF failure # "" THEN ConsistencyOutcome(Raise("TypeError"))
    ELSE ConsistencyOutcome(verification_results.timeline_validity.overall_consistency)

\* C21: exchanging two projects, or two employments, of the input leaves the
\* outcome of validate_overall_consistency as it is: the same overlapping
\* pairs (unordered), the same number of overlaps, the same consistency_score
C21_SwapKeepsOverlaps ==
    TimelinesValidated =>
        LET projects == extracted_resume_data.projects
            work == extracted_resume_data.work_experience
        IN /\ \A i, j \in 1..Len(projects) :
                ConsistencyOutcome(validate_overall_consistency(Swap(projects, i, j), work))
                  = ReportedOutcome
           /\ \A i, j \in 1..Len(work) :
                ConsistencyOutcome(validate_overall_consistency(projects, Swap(work, i, j)))
                  = ReportedOutcome

\* the same, for resumes in which every employment has an end year
C21_SwapKeepsOverlapsOfClosedIntervals ==
    (\A k \in 1..Len(extracted_resume_data.work_experience) :
        extracted_resume_data.work_experience[k].end_year # NoneYear)
    => C21_SwapKeepsOverlaps


\* the intervals of a resume: those of the projects with a timeline of two years,
\* then those of the employments with a start year
IntervalsOf(resume) ==
    LET years(k) == parse_timeline(resume.projects[k].timeline)
        kept == { k \in 1..Len(resume.projects) :
                    years(k)[1] # NoneYear /\ years(k)[2] # NoneYear }
        started == { k \in 1..Len(resume.work_experience) :
                       resume.work_experience[k].start_year # NoneYear }
    IN [project |-> [k \in kept |-> years(k)],
        work |-> [k \in started |-> <<resume.work_experience[k].start_year,
                                      resume.work_experience[k].end_year>>]]

\* a.start <= b.end and b.start <= a.end
InclusiveOverlap(a, b) == a[1] <= b[2] /\ b[1] <= a[2]

\* the number of unordered pairs of intervals that overlap
OverlappingPairs(iv) ==
    LET entries == ({"project"} \X DOMAIN iv.project) \cup ({"work"} \X DOMAIN iv.work)
        at(x) == IF x[1] = "project" THEN iv.project[x[2]] ELSE iv.work[x[2]]
    IN Cardinality({ pair \in SUBSET entries :
                       /\ Cardinality(pair) = 2
                       /\ \E x, y \in pair : x # y /\ InclusiveOverlap(at(x), at(y)) })

\* C23: when validate_overall_consistency returns its report, it holds one
\* overlap for each unordered pair of intervals a, b with a.start <= b.end and
\* b.start <= a.end and none for any other pair, and consistency_score is
\* max(0, 100 - 10 * number of overlaps), a number from 0 to 100
C23_OneOverlapPerInclusivePair ==
    (TimelinesValidated /\ failure = "") =>
        LET overall == verification_results.timeline_validity.overall_consistency
            n == OverlappingPairs(IntervalsOf(extracted_resume_data))
        IN /\ Len(overall.overlapping_periods) = n
           /\ overall.consistency_score = (IF 100 - 10 * n > 0 THEN 100 - 10 * n ELSE 0)
           /\ overall.consistency_score \in 0..100

\* projects 2021-2022 and 2022-2023: one overlap, score 90
C23_BoundaryYearOverlaps ==
    /\ TimelinesValidated
    /\ failure = ""
    /\ Len(extracted_resume_data.projects) = 2
    /\ extracted_resume_data.projects[1].timeline = "2021-2022"
    /\ extracted_resume_data.projects[2].timeline = "2022-2023"
    /\ extracted_resume_data.work_experience = <<>>
    /\ Len(verification_results.timeline_validity.overall_consistency.overlapping_periods) = 1
    /\ verification_results.timeline_validity.overall_consistency.consistency_score = 90


\* C26: validate_overall_consistency completes without an error on every list
\* of projects and employments: a project with a timeline that cannot be
\* parsed and an employment with a start year and no end year never make the
\* overlap computation fail
C26_OverallConsistencyNeverFails ==
    TimelinesValidated =>
        /\ failure = ""
        /\ Produced(verification_results.timeline_validity.overall_consistency)


\* the technology check has run on a resume with a skill or a project
TechChecked ==
    /\ pc = "validate_timelines"
    /\ verification_results.tech_consistency # None

\* the tokens of a list of technologies, normalized
NormalizedSet(techs) == {normalize_tech(techs[k]) : k \in 1..Len(techs)}

\* the normalized technologies named by the projects and by the employments
TextTechs(resume) ==
    UNION {NormalizedSet(resume.projects[k].technologies) : k \in 1..Len(resume.projects)}
    \cup UNION {NormalizedSet(resume.work_experience[k].technologies) :
                  k \in 1..Len(resume.work_experience)}


\* the outcomes of the repository request and of the language requests
NetOutcomes == [repos : {"200", "500"}, langs : {"200", "500"}]

\* the languages GitHub shows for the handle, with the number of repositories of each
DemonstratedMap(net) ==
    IF TruthyStr(extracted_resume_data.github_username)
    THEN CountLanguages(extracted_resume_data.github_username,
                        get_repositories(extracted_resume_data.github_username, net.repos,
                                         remote_repos),
                        net.langs, remote_repos, <<>>, 1)
    ELSE <<>>

\* the normalized keys of a map of demonstrated technologies
NormalizedKeys(map) == {normalize_tech(map[k][1]) : k \in 1..Len(map)}

\* what the technology check reports when the requests end as net says
TechReport(net) == check_tech_consistency(extracted_resume_data, net, remote_repos)

\* the names in a list of skill records, and in a list of names, as bags
SkillBag(list) == [s \in {list[k].skill : k \in 1..Len(list)} |->
                     Cardinality({k \in 1..Len(list) : list[k].skill = s})]
NameBag(list) == [s \in {list[k] : k \in 1..Len(list)} |->
                    Cardinality({k \in 1..Len(list) : list[k] = s})]

\* the normalized claimed skills that satisfy keep, as a bag
ClaimedBag(keep) ==
    LET skills == extracted_resume_data.skills
        kept == {k \in 1..Len(skills) : normalize_tech(skills[k]) \in keep}
    IN [s \in {normalize_tech(skills[k]) : k \in kept} |->
          Cardinality({k \in kept : normalize_tech(skills[k]) = s})]

\* C24: check_consistency puts every claimed skill in exactly one of the three
\* lists, so that their lengths add up to the number of claimed skills: in
\* verified_skills iff its normalized form is a key of the normalized map of
\* demonstrated technologies, in partially_verified_skills iff it is not but
\* is among the normalized technologies of the projects or employments, in
\* unverified_skills otherwise
C24_EverySkillInOneList ==
    TechChecked =>
        \A net \in NetOutcomes :
            LET report == TechReport(net).consistency_report
                github == NormalizedKeys(DemonstratedMap(net))
                text == TextTechs(extracted_resume_data)
                all == NormalizedSet(extracted_resume_data.skills)
            IN /\ Len(report.verified_skills) + Len(report.partially_verified_skills)
                    + Len(report.unverified_skills) = Len(extracted_resume_data.skills)
               /\ SkillBag(report.verified_skills) = ClaimedBag(github)
               /\ SkillBag(report.partially_verified_skills) = ClaimedBag(text \ github)
               /\ NameBag(report.unverified_skills) = ClaimedBag(all \ (github \cup text))
               /\ \E n \in NetOutcomes :
                    verification_results.tech_consistency = TechReport(n)

\* three skills claimed beside a project: one lands in each of the three lists
C24_OneSkillOfEachKind ==
    /\ TechChecked
    /\ extracted_resume_data.skills = <<"Python", "js", "Rust">>
    /\ Len(extracted_resume_data.projects) = 1
    /\ LET report == verification_results.tech_consistency.consistency_report
       IN /\ Len(report.verified_skills) = 1
          /\ Len(report.partially_verified_skills) = 1
          /\ Len(report.unverified_skills) = 1


\* the sequence without its entry k
Without(seq, k) == [i \in 1..(Len(seq) - 1) |-> IF i < k THEN seq[i] ELSE seq[i + 1]]

\* the consistency_score of the resume's evidence for the given claimed skills
ScoreOf(skills, net) ==
    check_consistency(skills, DemonstratedMap(net),
                      ExtractTechs(extracted_resume_data.projects, 1),
                      ExtractTechs(extracted_resume_data.work_experience, 1)).consistency_score

\* a is at least b, for two fractions with positive denominators
AtLeast(a, b) == a.num * b.den >= b.num * a.den

\* C22: the consistency_score of a list of claimed skills with a verified skill
\* in it is never lower than the score of the list without that skill, the
\* evidence being the same; the score lies between 0 and 1, and is 0 when no
\* skill is claimed
C22_VerifiedSkillNeverLowersScore ==
    TechChecked =>
        \A net \in NetOutcomes :
            LET skills == extracted_resume_data.skills
                score == TechReport(net).consistency_report.consistency_score
                github == NormalizedKeys(DemonstratedMap(net))
            IN /\ score = ScoreOf(skills, net)
               /\ score.den > 0 /\ 0 <= score.num /\ score.num <= score.den
               /\ skills = <<>> => score.num = 0
               /\ \A k \in 1..Len(skills) :
                    normalize_tech(skills[k]) \in github
                      => AtLeast(score, ScoreOf(Without(skills, k), net))
               /\ \E n \in NetOutcomes :
                    verification_results.tech_consistency = TechReport(n)

\* "js" is found in the employment only: score 0.7; with "Python", which the
\* repository shows, claimed as well the score is 0.85
C22_VerifiedSkillAdded ==
    /\ TechChecked
    /\ extracted_resume_data.skills = <<"js", "Python">>
    /\ Len(extracted_resume_data.work_experience) = 1
    /\ verification_results.tech_consistency.consistency_report.consistency_score
         = [num |-> 170, den |-> 200]
    /\ check_consistency(<<"js">>, <<>>, <<>>, <<"JavaScript">>).consistency_score
         = [num |-> 70, den |-> 100]


\* <<type, severity>> of a flag when its rule applies, nothing otherwise
FlagIf(applies, type, severity) == IF applies THEN << <<type, severity>> >> ELSE <<>>

\* the flags the three rules give for a report and a map of demonstrated technologies
SpecifiedFlags(skills, report, map) ==
    FlagIf(2 * Len(report.unverified_skills) > Len(skills), "high_unverified_rate", "high")
    \o FlagIf(report.undeclared_technologies # {}, "undeclared_technologies", "medium")
    \o FlagIf(Len(map) = 1 /\ \A k \in 1..Len(map) : map[k][2] = 1, "single_repo_only", "high")

\* C25: detect_red_flags emits, in this order and each independently of the
\* others, a high high_unverified_rate flag iff more than half of the claimed
\* skills are unverified, a medium undeclared_technologies flag iff there is
\* an undeclared technology, a high single_repo_only flag iff the map of
\* demonstrated technologies has one technology, seen in one repository
C25_ThreeIndependentRules ==
    TechChecked =>
        \A net \in NetOutcomes :
            LET flags == TechReport(net).red_flags
            IN /\ [k \in 1..Len(flags) |-> <<flags[k].type, flags[k].severity>>]
                    = SpecifiedFlags(extracted_resume_data.skills,
                                     TechReport(net).consistency_report, DemonstratedMap(net))
               /\ \E n \in NetOutcomes :
                    verification_results.tech_consistency = TechReport(n)

\* the three flags together: "Rust" claimed, one repository in Python only
C25_AllThreeFlags ==
    /\ TechChecked
    /\ extracted_resume_data.skills = <<"Rust">>
    /\ LET flags == verification_results.tech_consistency.red_flags
       IN /\ Len(flags) = 3
          /\ flags[1].type = "high_unverified_rate"
          /\ flags[2].type = "undeclared_technologies"
          /\ flags[3].type = "single_repo_only"


\* the normalized tokens the report names
ReportedTokens(report) ==
    {report.verified_skills[k].skill : k \in 1..Len(report.verified_skills)}
    \cup {report.partially_verified_skills[k].skill :
            k \in 1..Len(report.partially_verified_skills)}
    \cup {report.unverified_skills[k] : k \in 1..Len(report.unverified_skills)}
    \cup report.undeclared_technologies

\* the technologies the projects and employments name, as written
WrittenTechs(resume) ==
    UNION {Range(resume.projects[k].technologies) : k \in 1..Len(resume.projects)}
    \cup UNION {Range(resume.work_experience[k].technologies) :
                  k \in 1..Len(resume.work_experience)}

\* the synonym table maps one of the two spellings to the other
Related(x, y) ==
    \/ normalize_tech(x) = Lower(Strip(y))
    \/ normalize_tech(y) = Lower(Strip(x))

\* C30: normalize_tech is idempotent, so every token of the report, being a
\* normalized token, is left as it is by normalize_tech; and a claimed skill is
\* matched with a technology of a project or employment that the synonym
\* table relates to it, whichever of the two spellings each of them uses
C30_NormalizedTokensAreCanonical ==
    TechChecked =>
        LET report == verification_results.tech_consistency.consistency_report
            skills == extracted_resume_data.skills
        IN /\ \A t \in ReportedTokens(report) : normalize_tech(t) = t
           /\ \A k \in 1..Len(skills) : \A y \in WrittenTechs(extracted_resume_data) :
                Related(skills[k], y) =>
                    normalize_tech(skills[k]) \notin Range(report.unverified_skills)


\* the number of records of a list of timeline validations that are verified
VerifiedRecords(records) == Cardinality({k \in 1..Len(records) : records[k].verified})

\* the timeline-consistency percentage of a resume: 100 without a timeline record,
\* else max(0, verified records - 5 * overlaps) / records * 100, as a fraction
SpecifiedTimelinePercentage(resume, timeline_validity) ==
    IF Len(resume.projects) + Len(resume.work_experience) = 0
    THEN [num |-> 100, den |-> 1]
    ELSE LET verified == VerifiedRecords(timeline_validity.project_timelines)
                           + VerifiedRecords(timeline_validity.work_timelines)
             overlaps == Len(timeline_validity.overall_consistency.overlapping_periods)
             total == Len(timeline_validity.project_timelines)
                        + Len(timeline_validity.work_timelines)
         IN [num |-> 100 * (IF verified - 5 * overlaps > 0 THEN verified - 5 * overlaps ELSE 0),
             den |-> total]

\* C29: the timeline-consistency percentage that enters the ATS score is 100
\* for a resume without projects and employments, and otherwise
\* max(0, verified records - 5 * overlaps) / total records * 100
C29_NoTimelinesCountAsConsistent ==
    Produced(ats_score_report) =>
        SameNumber(ats_score_report.breakdown.timeline_consistency.percentage,
                   SpecifiedTimelinePercentage(extracted_resume_data,
                                               verification_results.timeline_validity))


\* a percentage from 0 to 100
WithinPercentRange(p) == 0 <= p.num /\ p.num <= 100 * p.den

\* C27: each of the four percentages that calculate_ats_score multiplies by a
\* weight (skill match, claim verification, completeness as the caller passed
\* it, timeline consistency) lies between 0 and 100
C27_EveryTermWithinRange ==
    Produced(ats_score_report) =>
        /\ WithinPercentRange(ats_score_report.breakdown.jd_skill_match.percentage)
        /\ WithinPercentRange(ats_score_report.breakdown.verified_claims.percentage)
        /\ WithinPercentRange(ats_score_report.breakdown.resume_completeness.percentage)
        /\ WithinPercentRange(ats_score_report.breakdown.timeline_consistency.percentage)


\* C28: in every run of the graph ats_calculator, executive_summary and
\* final_report_generator execute at most once, and none of them executes on
\* a result that is missing or was computed from a missing one: ats_calculator
\* runs after the scoring nodes have written their results, executive_summary
\* after that, final_report_generator after that
C28_ReportNodesRunOnceOnWholeResults ==
    graph_run.status # "idle" =>
        /\ \A node \in {"ats_calculator", "executive_summary", "final_report_generator"} :
             /\ graph_run.executions[node] <= 1
             /\ node \notin graph_run.partial_runs
        /\ graph_run.executions["ats_calculator"] > 0 =>
             \A node \in {"jd_extractor", "trust_scorer", "completeness_scorer",
                          "red_flag_detector"} :
                /\ graph_run.executions[node] > 0
                /\ graph_run.channels[NodeWrites(node)] # "initial"

=============================================================================
